---- MODULE Spec2Model ----
(***************************************************************************)
(* Verification model of OmniDoc.                                          *)
(*                                                                         *)
(* The repository is a set of loosely coupled components.  Each component  *)
(* is modelled by its own group of variables and its own specification;    *)
(* the variables of the other components stay at their initial value.      *)
(*                                                                         *)
(*   SpecQueue  - rate_limit/queue_manager.py   RequestQueue               *)
(*   SpecWS     - web/routers/websocket.py, web/websocket_manager.py       *)
(*   SpecTask   - tasks/generation_tasks.py     generate_documents_task    *)
(*   SpecStore  - context/context_manager.py    ContextManager locking     *)
(*   SpecCoord  - coordination/coordinator.py   generate_all_docs          *)
(*   SpecRedis  - utils/redis_client.py         RedisRateLimiter           *)
(***************************************************************************)
EXTENDS Integers, Sequences, FiniteSets, TLC

VARIABLES
    \* ---- RequestQueue (rate_limit/queue_manager.py)
    now,              \* time.time(), in ticks of half a second
    max_rate_cfg,     \* the max_rate argument of __init__
    request_times,    \* self.request_times, oldest first
    rq_lock,          \* self.lock: Free, or {the thread holding it}
    rq_pc,            \* per thread: position inside execute/_wait_if_needed
    current_time,     \* per thread: the local current_time of _wait_if_needed
    wake_at,          \* per thread: the earliest tick at which its sleep returns
    rq_outcome,       \* per thread: how its last call went (branch taken or error)
    admitted,         \* history: the timestamps appended during the last `period` ticks
    \* ---- WebSocket endpoint and manager (web/routers/websocket.py, web/websocket_manager.py)
    active_connections, \* WebSocketManager.active_connections: project id -> set of sockets
    ws_accepting,     \* handlers suspended in `await websocket.accept()`: socket -> project id
    ws_next,          \* the next connection attempt (sockets are numbered as they arrive)
    ws_last,          \* the last connection attempt: its socket, project id and close code
    \* ---- generate_documents_task (tasks/generation_tasks.py), one job
    project_status,   \* table project_status: project id -> row
    user_idea,        \* the user_idea argument of the job
    retries,          \* self.request.retries of the current execution
    task_pc,          \* position of the current execution inside the task body
    exc,              \* the exception being handled or raised, or None
    notifications,    \* every send_websocket_notification call of the job, in order
    delivered,        \* the notifications the broker accepted, in order
    countdowns,       \* the countdown of every self.retry call of the job, in order
    \* ---- ContextManager, one instance shared by threads (context/context_manager.py)
    cm_lock,          \* self._lock: Free, or {the thread holding it}
    cm_pc,            \* per thread: position inside its mutating operation
    cm_op,            \* per thread: the operation it runs, or None
    cm_pending,       \* statements executed on self.connection and not yet committed
    cm_committed,     \* the operations whose statement has been committed
    \* ---- WorkflowCoordinator.generate_all_docs, one run (coordination/coordinator.py)
    profile,          \* the profile argument
    coord_step,       \* index in Pipeline of the current step
    coord_phase,      \* "ready": between steps, "running": inside a step, "returned", "raised"
    results_status,   \* results["status"]: key -> text ("absent": no such key)
    results_files,    \* the keys of results["files"]
    results_error,    \* results["error"], or None
    agent_outputs,    \* documents with a COMPLETE output in the Context Store
    steps_started,    \* history: the steps that have started
    steps_raised,     \* history: the steps that raised
    \* ---- RedisRateLimiter, one instance shared by threads (utils/redis_client.py)
    clock,            \* datetime.now(): [year, month, day, hour]
    clock_steps,      \* how often the clock has advanced
    request_counts,   \* self.request_counts: period key -> count
    monthly_reset_date, \* self.monthly_reset_date: <<year, month>>
    rl_lock,          \* self._lock: Free, or {the thread holding it}
    rl_pc,            \* per thread: position inside its call
    rl_op,            \* per thread: the method it runs, or None
    rl_keys,          \* per thread: the keys _get_period_keys computed
    rl_result,        \* per thread: what its last can_make_request returned
    rl_recorded,      \* history: hour key -> requests recorded in that hour
    \* ---- the auto-fix stage of generate_all_docs (coordination/coordinator.py)
    enable_auto_fix,  \* the setting / ENABLE_AUTO_FIX
    review,           \* the quality review: its overall score line and its sections
    all_documentation, \* the documents collected in Step 20
    af_pc,            \* position inside the stage
    overall_score,    \* the local overall_score
    document_scores,  \* the local document_scores: section name -> score
    documents_to_improve, \* the local documents_to_improve
    improved_docs,    \* the local improved_docs
    improver_calls,   \* history: the documents improve_and_save was called for, in order
    auto_fix_status,  \* results["status"]["auto_fix"], or "absent"
    \* ---- RedisClientPool.safe_publish, one caller (utils/redis_client.py)
    sp_pc,            \* position inside safe_publish
    sp_fallback,      \* the fallback_func argument: none, or what calling it does
    sp_result,        \* how the last call ended: True, False, the error raised
    sp_refused,       \* the rate limiter refused the last call
    sp_contacts,      \* history: how often the last call contacted the broker
    sp_published,     \* history: the broker accepted the message of the last call
    sp_fallback_calls, \* history: how often the last call invoked the fallback
    sp_counts_before, \* history: request_counts when the last call began
    sp_calls,         \* history: the calls made so far
    \* ---- the result cache of RequestQueue.execute, one caller (rate_limit/queue_manager.py)
    cache,            \* self.cache, in insertion order: sequence of [key, value]
    ex_pc,            \* position inside execute
    ex_callee,        \* the func argument of the current or last call
    ex_args,          \* its arguments
    ex_outcome,       \* how the last call ended: the value returned or the error raised
    ex_invoked,       \* history: how often the last call invoked the callee
    ex_waited,        \* history: the last call went through _wait_if_needed
    ex_timestamps,    \* history: timestamps the last call appended to the window
    ex_cache_before,  \* history: the cache when the last call began
    ex_previous,      \* history: callee, arguments and outcome of the call before
    ex_calls,         \* history: the calls made so far
    \* ---- RequestQueue construction and get_stats, one queue (rate_limit/queue_manager.py)
    sq_configured,    \* the max_rate argument of __init__ (self.original_max_rate)
    sq_margin,        \* the safety_margin argument, in percent, if given
    sq_max_rate,      \* self.max_rate
    sq_window,        \* len(self.request_times)
    sq_executed,      \* history: execute calls so far
    sq_stats,         \* what the last get_stats() returned, or NoStats
    \* ---- WebSocket handlers and send_progress on one event loop
    \*      (web/routers/websocket.py, web/websocket_manager.py)
    hub_connections,  \* WebSocketManager.active_connections
    hub_handler,      \* socket -> where its websocket_endpoint coroutine is, and its project id
    hub_call,         \* the send_progress coroutine: position, iterator state, sends so far
    hub_calls,        \* history: send_progress calls so far
    \* ---- ContextManager.update_project_status / get_project_status on the
    \*      project_status table (context/context_manager.py)
    ps_rows,          \* the project_status table: project id -> row
    ps_lock,          \* ContextManager._lock
    ps_call,          \* the arguments of the call in progress, if any
    ps_outcomes,      \* history: how each call so far ended
    \* ---- ContextManager.save_agent_output / get_agent_output /
    \*      get_all_agent_outputs on the agent_outputs table
    ao_table,         \* the agent_outputs table: output_id -> row
    ao_last,          \* history: <<project, agent type>> -> the output saved last, if any
    ao_saves,         \* history: save_agent_output calls that returned
    \* ---- generate_all_docs Steps 1-4 with the PM agent of
    \*      agents/pm_documentation_agent.py, then get_workflow_status
    plan_idea,        \* the user_idea argument
    plan_project_arg, \* the project_id argument, if given
    plan_profile,     \* the profile argument
    plan_pc,          \* where generate_all_docs is
    plan_files,       \* the keys of results["files"]
    plan_error,       \* results["error"], or None
    plan_disk,        \* the documents written under the documents directory
    plan_store,       \* agent type -> status, the agent_outputs rows of the project
    plan_faults,      \* history: the steps in which an LLM call or a file write failed
    plan_report,      \* what get_workflow_status returned, if it was called
    \* ---- a RequestQueue and an AsyncRequestQueue of the same configuration,
    \*      given the same calls one after the other (rate_limit/queue_manager.py,
    \*      rate_limit/async_queue_manager.py)
    tw_max_rate_cfg,  \* the max_rate argument of both constructors
    tw_now,           \* time.time()
    tw_sync,          \* the RequestQueue: request_times and cache
    tw_async,         \* the AsyncRequestQueue: request_times and cache
    tw_sync_last,     \* what the last execute of the RequestQueue did
    tw_async_last,    \* what the last execute of the AsyncRequestQueue did
    tw_calls,         \* history: execute calls so far
    \* ---- the receive loop of one registered connection, with its timer
    \*      (web/routers/websocket.py)
    hb_registered,    \* the socket is in WebSocketManager.active_connections
    hb_pc,            \* where the handler is
    hb_waited,        \* seconds the current wait_for(receive_text(), 30.0) has waited
    hb_timeouts,      \* history: waits that ended with TimeoutError
    hb_attempts,      \* history: send_json calls of the handler
    hb_sent,          \* history: the frames the client was sent, in order
    hb_received,      \* history: client frames received
    \* ---- safe_publish called by several threads on the shared pool, within one
    \*      hour (utils/redis_client.py)
    mp_counts,        \* RedisRateLimiter.request_counts
    mp_pc,            \* thread -> where its safe_publish is
    mp_sent,          \* history: publishes the broker has taken in this hour
    mp_calls,         \* history: safe_publish calls so far
    \* ---- ContextManager.get_shared_context read by one thread while others
    \*      save agent outputs and cross-references (context/context_manager.py)
    sc_outputs,       \* the agent_outputs rows of the project: agent type -> status
    sc_refs,          \* the cross_references table: ref_id -> row
    sc_saved_refs,    \* history: the cross-references saved so far
    sc_pc,            \* where get_shared_context is
    sc_project,       \* its project_id argument
    sc_view,          \* the parts of the SharedContext read so far
    sc_report,        \* what get_workflow_status made of the last SharedContext
    sc_saves          \* history: save calls so far

rqVars == <<now, max_rate_cfg, request_times, rq_lock, rq_pc, current_time,
            wake_at, rq_outcome, admitted>>

wsVars == <<active_connections, ws_accepting, ws_next, ws_last>>

taskVars == <<project_status, user_idea, retries, task_pc, exc, notifications, delivered,
              countdowns>>

cmVars == <<cm_lock, cm_pc, cm_op, cm_pending, cm_committed>>

coordVars == <<profile, coord_step, coord_phase, results_status, results_files,
               results_error, agent_outputs, steps_started, steps_raised>>

rlVars == <<clock, clock_steps, request_counts, monthly_reset_date, rl_lock, rl_pc,
            rl_op, rl_keys, rl_result, rl_recorded>>

afVars == <<enable_auto_fix, review, all_documentation, af_pc, overall_score,
            document_scores, documents_to_improve, improved_docs, improver_calls,
            auto_fix_status>>

spVars == <<sp_pc, sp_fallback, sp_result, sp_refused, sp_contacts, sp_published,
            sp_fallback_calls, sp_counts_before, sp_calls>>

exVars == <<cache, ex_pc, ex_callee, ex_args, ex_outcome, ex_invoked, ex_waited,
            ex_timestamps, ex_cache_before, ex_previous, ex_calls>>

sqVars == <<sq_configured, sq_margin, sq_max_rate, sq_window, sq_executed, sq_stats>>

hubVars == <<hub_connections, hub_handler, hub_call, hub_calls>>

psVars == <<ps_rows, ps_lock, ps_call, ps_outcomes>>

aoVars == <<ao_table, ao_last, ao_saves>>

planVars == <<plan_idea, plan_project_arg, plan_profile, plan_pc, plan_files, plan_error,
              plan_disk, plan_store, plan_faults, plan_report>>

twinVars == <<tw_max_rate_cfg, tw_now, tw_sync, tw_async, tw_sync_last, tw_async_last,
              tw_calls>>

hbVars == <<hb_registered, hb_pc, hb_waited, hb_timeouts, hb_attempts, hb_sent,
            hb_received>>

mpVars == <<mp_counts, mp_pc, mp_sent, mp_calls>>

scVars == <<sc_outputs, sc_refs, sc_saved_refs, sc_pc, sc_project, sc_view, sc_report,
            sc_saves>>

vars == <<rqVars, wsVars, taskVars, cmVars, coordVars, rlVars, afVars, spVars, exVars, sqVars, hubVars, psVars, aoVars, planVars, twinVars, hbVars, mpVars, scVars>>

\* what a step of one component leaves alone
QueueStep == UNCHANGED <<wsVars, taskVars, cmVars, coordVars, rlVars, afVars, spVars, exVars, sqVars, hubVars, psVars, aoVars, planVars, twinVars, hbVars, mpVars, scVars>>
WSStep == UNCHANGED <<rqVars, taskVars, cmVars, coordVars, rlVars, afVars, spVars, exVars, sqVars, hubVars, psVars, aoVars, planVars, twinVars, hbVars, mpVars, scVars>>
TaskStep == UNCHANGED <<rqVars, wsVars, cmVars, coordVars, rlVars, afVars, spVars, exVars, sqVars, hubVars, psVars, aoVars, planVars, twinVars, hbVars, mpVars, scVars>>
StoreStep == UNCHANGED <<rqVars, wsVars, taskVars, coordVars, rlVars, afVars, spVars, exVars, sqVars, hubVars, psVars, aoVars, planVars, twinVars, hbVars, mpVars, scVars>>
CoordStep == UNCHANGED <<rqVars, wsVars, taskVars, cmVars, rlVars, afVars, spVars, exVars, sqVars, hubVars, psVars, aoVars, planVars, twinVars, hbVars, mpVars, scVars>>
LimiterStep == UNCHANGED <<rqVars, wsVars, taskVars, cmVars, coordVars, afVars, spVars, exVars, sqVars, hubVars, psVars, aoVars, planVars, twinVars, hbVars, mpVars, scVars>>
AutoFixStep == UNCHANGED <<rqVars, wsVars, taskVars, cmVars, coordVars, rlVars, spVars, exVars, sqVars, hubVars, psVars, aoVars, planVars, twinVars, hbVars, mpVars, scVars>>
CacheStep == UNCHANGED <<rqVars, wsVars, taskVars, cmVars, coordVars, rlVars, afVars, spVars, sqVars, hubVars, psVars, aoVars, planVars, twinVars, hbVars, mpVars, scVars>>
StatsStep == UNCHANGED <<rqVars, wsVars, taskVars, cmVars, coordVars, rlVars, afVars, spVars, exVars, hubVars, psVars, aoVars, planVars, twinVars, hbVars, mpVars, scVars>>
HubStep == UNCHANGED <<rqVars, wsVars, taskVars, cmVars, coordVars, rlVars, afVars, spVars, exVars, sqVars, psVars, aoVars, planVars, twinVars, hbVars, mpVars, scVars>>
StatusStep == UNCHANGED <<rqVars, wsVars, taskVars, cmVars, coordVars, rlVars, afVars, spVars, exVars, sqVars, hubVars, aoVars, planVars, twinVars, hbVars, mpVars, scVars>>
OutputsStep == UNCHANGED <<rqVars, wsVars, taskVars, cmVars, coordVars, rlVars, afVars, spVars, exVars, sqVars, hubVars, psVars, planVars, twinVars, hbVars, mpVars, scVars>>
PlanStep == UNCHANGED <<rqVars, wsVars, taskVars, cmVars, coordVars, rlVars, afVars, spVars, exVars, sqVars, hubVars, psVars, aoVars, twinVars, hbVars, mpVars, scVars>>
TwinStep == UNCHANGED <<rqVars, wsVars, taskVars, cmVars, coordVars, rlVars, afVars, spVars, exVars, sqVars, hubVars, psVars, aoVars, planVars, hbVars, mpVars, scVars>>
LoopStep == UNCHANGED <<rqVars, wsVars, taskVars, cmVars, coordVars, rlVars, afVars, spVars, exVars, sqVars, hubVars, psVars, aoVars, planVars, twinVars, mpVars, scVars>>
CrowdStep == UNCHANGED <<rqVars, wsVars, taskVars, cmVars, coordVars, rlVars, afVars, spVars, exVars, sqVars, hubVars, psVars, aoVars, planVars, twinVars, hbVars, scVars>>
ContextStep == UNCHANGED <<rqVars, wsVars, taskVars, cmVars, coordVars, rlVars, afVars, spVars, exVars, sqVars, hubVars, psVars, aoVars, planVars, twinVars, hbVars, mpVars>>
PublishStep == UNCHANGED <<rqVars, wsVars, taskVars, cmVars, coordVars, afVars, rl_pc, rl_op,
                           rl_keys, rl_result, rl_recorded, exVars, sqVars, hubVars,
                           psVars, aoVars,
                           planVars,
                           twinVars,
                           hbVars,
                           mpVars,
                           scVars>>

Free == {}      \* a lock nobody holds; a held lock is {holder}
None == "None"  \* Python's None, where the other values are strings

\* an Optional argument whose values are not strings: NotGiven or Given(value)
NotGiven == {}
Given(x) == {x}
ValueOf(opt) == CHOOSE x \in opt : TRUE

(***************************************************************************)
(* Generic helpers                                                         *)
(***************************************************************************)
RECURSIVE CountIn(_, _, _)
\* number of entries of sequence s that lie in [lo, hi]
CountIn(s, lo, hi) ==
    IF s = <<>> THEN 0
    ELSE (IF lo <= Head(s) /\ Head(s) <= hi THEN 1 ELSE 0) + CountIn(Tail(s), lo, hi)

RECURSIVE DropBelow(_, _)
\* the sorted sequence s without its entries below lo
DropBelow(s, lo) ==
    IF s # <<>> /\ Head(s) < lo THEN DropBelow(Tail(s), lo) ELSE s

(***************************************************************************)
(* RequestQueue                                                            *)
(***************************************************************************)
NThreads == 2          \* concurrent callers of execute
MaxTime == 6           \* the clock stops here
MaxRateCfg == 3        \* largest configured max_rate
period == 2            \* self.period, in ticks
SafetyPercent == 95    \* safety_margin = 0.95
ThresholdPercent == 80 \* the 0.8 early-warning factor
Buffer == 1            \* the 0.5 s added to wait_time: one tick
MaxJitter == 1         \* random.uniform(0, 0.5): at most one tick

RQThreads == 1..NThreads

\* __init__: self.max_rate = int(max_rate * safety_margin)
EffectiveMaxRate(m) == (m * SafetyPercent) \div 100

max_rate == EffectiveMaxRate(max_rate_cfg)

\* _wait_if_needed: threshold = int(self.max_rate * 0.8)
Threshold(m) == (m * ThresholdPercent) \div 100

RECURSIVE CleanOld(_, _)
\* _clean_old_requests: popleft while request_times[0] < current_time - period
CleanOld(times, t) ==
    IF times # <<>> /\ Head(times) < t - period
    THEN CleanOld(Tail(times), t)
    ELSE times

\* mutant of WaitTime: the period is left out of the wait
WaitTime_NoPeriod(oldest, cur) == oldest - cur + Buffer

\* wait_time = (oldest_request + self.period) - current_time + 0.5
WaitTime(oldest, cur) == (oldest + period) - cur + Buffer

InitQueue ==
    /\ now = 0
    /\ max_rate_cfg \in 1..MaxRateCfg
    /\ request_times = <<>>
    /\ rq_lock = Free
    /\ rq_pc = [t \in RQThreads |-> "idle"]
    /\ current_time = [t \in RQThreads |-> 0]
    /\ wake_at = [t \in RQThreads |-> 0]
    /\ rq_outcome = [t \in RQThreads |-> "none"]
    /\ admitted = <<>>

\* the state of this component while another one is checked
IdleQueue ==
    /\ now = 0
    /\ max_rate_cfg = 1
    /\ request_times = <<>>
    /\ rq_lock = Free
    /\ rq_pc = [t \in RQThreads |-> "idle"]
    /\ current_time = [t \in RQThreads |-> 0]
    /\ wake_at = [t \in RQThreads |-> 0]
    /\ rq_outcome = [t \in RQThreads |-> "none"]
    /\ admitted = <<>>

\* the clock advances on its own; a sleeping thread wakes no earlier than asked
Tick ==
    /\ now < MaxTime
    /\ now' = now + 1
    /\ admitted' = DropBelow(admitted, now' - period)
    /\ UNCHANGED <<max_rate_cfg, request_times, rq_lock, rq_pc, current_time,
                   wake_at, rq_outcome>>
    /\ QueueStep

\* execute, cache miss: _wait_if_needed reads current_time before taking the lock
RQ_Call(t) ==
    /\ rq_pc[t] = "idle"
    /\ current_time' = [current_time EXCEPT ![t] = now]
    /\ rq_pc' = [rq_pc EXCEPT ![t] = "wait_lock"]
    /\ rq_outcome' = [rq_outcome EXCEPT ![t] = "none"]
    /\ UNCHANGED <<now, max_rate_cfg, request_times, rq_lock, wake_at, admitted>>
    /\ QueueStep

\* the request is recorded, the lock released and _wait_if_needed returns
Admit(t, times, branch) ==
    /\ request_times' = Append(times, now)
    /\ admitted' = Append(admitted, now)
    /\ rq_lock' = Free
    /\ rq_pc' = [rq_pc EXCEPT ![t] = "idle"]
    /\ rq_outcome' = [rq_outcome EXCEPT ![t] = branch]
    /\ current_time' = [current_time EXCEPT ![t] = 0]
    /\ wake_at' = [wake_at EXCEPT ![t] = 0]

\* the thread goes to sleep inside the with block, holding the lock
Sleep(t, times, pos, ticks) ==
    /\ request_times' = times
    /\ rq_lock' = {t}
    /\ rq_pc' = [rq_pc EXCEPT ![t] = pos]
    /\ wake_at' = [wake_at EXCEPT ![t] = now + ticks]
    /\ UNCHANGED <<admitted, rq_outcome, current_time>>

\* with self.lock: clean, then proceed, jitter or block
RQ_Enter(t) ==
    /\ rq_pc[t] = "wait_lock"
    /\ rq_lock = Free
    /\ LET cleaned == CleanOld(request_times, now) IN
       IF Len(cleaned) >= Threshold(max_rate)
       THEN IF Len(cleaned) >= max_rate
            THEN IF cleaned = <<>>
                 THEN \* request_times[0] on an empty deque: IndexError leaves the with block
                      /\ rq_outcome' = [rq_outcome EXCEPT ![t] = "IndexError"]
                      /\ rq_pc' = [rq_pc EXCEPT ![t] = "idle"]
                      /\ current_time' = [current_time EXCEPT ![t] = 0]
                      /\ request_times' = cleaned
                      /\ UNCHANGED <<rq_lock, wake_at, admitted>>
                 ELSE IF WaitTime(Head(cleaned), current_time[t]) > 0
                      THEN Sleep(t, cleaned, "blocked",
                                 WaitTime(Head(cleaned), current_time[t]))
                      ELSE Admit(t, cleaned, "proceed")
            ELSE \E jitter \in 0..MaxJitter :
                    IF jitter > 0
                    THEN Sleep(t, cleaned, "jitter", jitter)
                    ELSE Admit(t, cleaned, "proceed")
       ELSE Admit(t, cleaned, "proceed")
    /\ UNCHANGED <<now, max_rate_cfg>>
    /\ QueueStep

\* time.sleep(wait_time) returns; _clean_old_requests again; append
RQ_WakeBlocked(t) ==
    /\ rq_pc[t] = "blocked"
    /\ now >= wake_at[t]
    /\ Admit(t, CleanOld(request_times, now), "blocked")
    /\ UNCHANGED <<now, max_rate_cfg>>
    /\ QueueStep

\* time.sleep(jitter) returns; append
RQ_WakeJitter(t) ==
    /\ rq_pc[t] = "jitter"
    /\ now >= wake_at[t]
    /\ Admit(t, request_times, "jitter")
    /\ UNCHANGED <<now, max_rate_cfg>>
    /\ QueueStep

\* get_stats: cleans the window under the lock
RQ_GetStats(t) ==
    /\ rq_pc[t] = "idle"
    /\ rq_lock = Free
    /\ request_times # CleanOld(request_times, now)
    /\ request_times' = CleanOld(request_times, now)
    /\ UNCHANGED <<now, max_rate_cfg, rq_lock, rq_pc, current_time, wake_at,
                   rq_outcome, admitted>>
    /\ QueueStep

NextQueue ==
    \/ Tick
    \/ \E t \in RQThreads : RQ_Call(t)
    \/ \E t \in RQThreads : RQ_Enter(t)
    \/ \E t \in RQThreads : RQ_WakeBlocked(t)
    \/ \E t \in RQThreads : RQ_WakeJitter(t)
    \/ \E t \in RQThreads : RQ_GetStats(t)

(***************************************************************************)
(* WebSocket endpoint /ws/{project_id} and WebSocketManager                *)
(***************************************************************************)
NSockets == 11         \* connection attempts per behaviour
MaxConnections == 10   \* len(active_connections) >= 10 rejects
MaxProjectIdLen == 255 \* len(project_id) > 255 rejects

Sockets == 1..NSockets

\* a project id, by what the endpoint reads of it: its text, whether it
\* starts with "project_", and its length
ProjectA == [text |-> "project_a", starts_with_project |-> TRUE, length |-> 9]
NotAProjectId == [text |-> "not-a-project-id", starts_with_project |-> FALSE, length |-> 16]
EmptyProjectId == [text |-> "", starts_with_project |-> FALSE, length |-> 0]
LongProjectId == [text |-> "project_aaa...", starts_with_project |-> TRUE,
                  length |-> MaxProjectIdLen + 1]

WSProjectIds == {ProjectA, NotAProjectId, EmptyProjectId, LongProjectId}

PolicyViolation == 1008   \* close(code=1008, ...)

\* mutant of InvalidProjectId: the length is not checked
InvalidProjectId_LengthUnchecked(pid) ==
    \/ pid.length = 0
    \/ ~pid.starts_with_project

\* if not project_id or not project_id.startswith("project_") or len(project_id) > 255
InvalidProjectId(pid) ==
    \/ pid.length = 0
    \/ ~pid.starts_with_project
    \/ pid.length > MaxProjectIdLen

\* active_connections.get(project_id, set())
ConnectionsOf(ac, pid) == IF pid \in DOMAIN ac THEN ac[pid] ELSE {}

\* if len(active_connections) >= 10
TooManyConnections(ac, pid) == Cardinality(ConnectionsOf(ac, pid)) >= MaxConnections

\* WebSocketManager.connect, after accept: setdefault(project_id, set()).add(websocket)
Register(ac, pid, ws) ==
    [q \in DOMAIN ac \cup {pid} |->
        IF q = pid THEN ConnectionsOf(ac, pid) \cup {ws} ELSE ac[q]]

\* WebSocketManager.disconnect
Unregister(ac, pid, ws) ==
    IF ConnectionsOf(ac, pid) = {}
    THEN ac
    ELSE IF ConnectionsOf(ac, pid) \ {ws} = {}
         THEN [q \in DOMAIN ac \ {pid} |-> ac[q]]
         ELSE [ac EXCEPT ![pid] = @ \ {ws}]

NoAttempt == [socket |-> 0, project_id |-> ProjectA, close_code |-> NotGiven]

InitWS ==
    /\ active_connections = <<>>
    /\ ws_accepting = <<>>
    /\ ws_next = 1
    /\ ws_last = NoAttempt

\* the registry when MaxConnections - 1 clients of one project are connected,
\* their handlers waiting in receive_text
InitWSLoaded ==
    /\ active_connections = [pid \in {ProjectA} |-> 1..(MaxConnections - 1)]
    /\ ws_accepting = <<>>
    /\ ws_next = MaxConnections
    /\ ws_last = [socket |-> MaxConnections - 1, project_id |-> ProjectA,
                  close_code |-> NotGiven]

\* the state of this component while another one is checked
IdleWS == InitWS

\* websocket_endpoint up to its first await: validate the id, check the
\* limit, then either close with 1008 or call connect, which suspends in accept
WS_Endpoint(pid) ==
    /\ ws_next <= NSockets
    /\ ws_next' = ws_next + 1
    /\ IF InvalidProjectId(pid) \/ TooManyConnections(active_connections, pid)
       THEN \* await websocket.close(code=1008, ...); return
            /\ ws_last' = [socket |-> ws_next, project_id |-> pid,
                           close_code |-> Given(PolicyViolation)]
            /\ UNCHANGED <<active_connections, ws_accepting>>
       ELSE /\ ws_accepting' = [s \in DOMAIN ws_accepting \cup {ws_next} |->
                                   IF s = ws_next THEN pid ELSE ws_accepting[s]]
            /\ ws_last' = [socket |-> ws_next, project_id |-> pid, close_code |-> NotGiven]
            /\ UNCHANGED active_connections
    /\ WSStep

\* `await websocket.accept()` returns: the socket is added to the registry;
\* if accept raises, connect and the endpoint end with that error
WS_Accepted(s, ok) ==
    /\ s \in DOMAIN ws_accepting
    /\ ws_accepting' = [q \in DOMAIN ws_accepting \ {s} |-> ws_accepting[q]]
    /\ IF ok
       THEN active_connections' = Register(active_connections, ws_accepting[s], s)
       ELSE UNCHANGED active_connections
    /\ UNCHANGED <<ws_next, ws_last>>
    /\ WSStep

\* the handler of a registered socket ends (disconnect, failed send, any
\* error): finally: websocket_manager.disconnect(websocket, project_id)
WS_HandlerEnds(s, pid) ==
    /\ s \in ConnectionsOf(active_connections, pid)
    /\ active_connections' = Unregister(active_connections, pid, s)
    /\ UNCHANGED <<ws_accepting, ws_next, ws_last>>
    /\ WSStep

NextWS ==
    \/ \E pid \in WSProjectIds : WS_Endpoint(pid)
    \/ \E s \in Sockets, ok \in BOOLEAN : WS_Accepted(s, ok)
    \/ \E s \in Sockets, pid \in WSProjectIds : WS_HandlerEnds(s, pid)

(***************************************************************************)
(* websocket_endpoint handlers and WebSocketManager.send_progress,         *)
(* interleaved at their awaits                                             *)
(***************************************************************************)
MaxFanOuts == 1           \* send_progress calls in a behaviour

HubSockets == {1, 2, 3}

ProjectB == [text |-> "project_b", starts_with_project |-> TRUE, length |-> 9]

HubProjectIds == {ProjectA, ProjectB, NotAProjectId}

\* the project ids the clients ask for: the first two clients watch
\* project_a, the third one asks for any id
RequestedIds(s) == IF s < 3 THEN {ProjectA} ELSE HubProjectIds

NoSocket == 0

NoCall == [pc |-> "idle", project_id |-> ProjectA, used |-> 0, live |-> TRUE,
           at_call |-> {}, current |-> NoSocket, sent |-> {}, disconnected |-> {}]

InitHub ==
    /\ hub_connections = <<>>
    /\ hub_handler = [s \in HubSockets |-> [pc |-> "new", project_id |-> ProjectA]]
    /\ hub_call = NoCall
    /\ hub_calls = 0

\* the state of this component while another one is checked
IdleHub == InitHub

\* len(so): the size of the set object `connections` that send_progress
\* iterates; the object is dropped from the registry when it becomes empty
UsedOf(call, ac) ==
    IF call.live THEN Cardinality(ConnectionsOf(ac, call.project_id)) ELSE 0

\* the effect of a disconnect on a suspended send_progress: when the set it
\* iterates is emptied, the registry entry is popped and a later connect
\* creates another set
AfterDisconnect(call, ac, pid) ==
    IF call.pc = "sending" /\ call.project_id = pid /\ pid \notin DOMAIN ac
    THEN [call EXCEPT !.live = FALSE]
    ELSE call

\* mutant of HandlerFinally: the socket stays in the registry
HandlerFinally_Missing(s) ==
    /\ hub_handler' = [hub_handler EXCEPT ![s].pc = "ended"]
    /\ UNCHANGED <<hub_connections, hub_call>>

\* finally: websocket_manager.disconnect(websocket, project_id)
HandlerFinally(s) ==
    /\ hub_handler' = [hub_handler EXCEPT ![s].pc = "ended"]
    /\ hub_connections' = Unregister(hub_connections, hub_handler[s].project_id, s)
    /\ hub_call' = AfterDisconnect(hub_call, hub_connections', hub_handler[s].project_id)

\* websocket_endpoint up to its first await (sockets arrive in order)
Hub_Endpoint(s, pid) ==
    /\ hub_handler[s].pc = "new"
    /\ pid \in RequestedIds(s)
    /\ \A q \in HubSockets : q < s => hub_handler[q].pc # "new"
    /\ hub_handler' = [hub_handler EXCEPT ![s] =
           [pc |-> IF InvalidProjectId(pid) \/ TooManyConnections(hub_connections, pid)
                   THEN "closed" ELSE "accepting",
            project_id |-> pid]]
    /\ UNCHANGED <<hub_connections, hub_call, hub_calls>>
    /\ HubStep

\* `await websocket.accept()` returns and the socket is registered, then
\* the handler suspends in send_json({"type": "connected", ...}); if accept
\* raises the endpoint ends before its try block
Hub_Accepted(s, ok) ==
    /\ hub_handler[s].pc = "accepting"
    /\ IF ok
       THEN /\ hub_connections' = Register(hub_connections, hub_handler[s].project_id, s)
            /\ hub_handler' = [hub_handler EXCEPT ![s].pc = "connected"]
       ELSE /\ hub_handler' = [hub_handler EXCEPT ![s].pc = "closed"]
            /\ UNCHANGED hub_connections
    /\ UNCHANGED <<hub_call, hub_calls>>
    /\ HubStep

SendOutcomes == {"ok", "WebSocketDisconnect", "Exception"}

ReceiveOutcomes == {"TimeoutError", "WebSocketDisconnect", "Exception"}

\* the send of the `connected` frame ends
Hub_ConnectedSent(s, outcome) ==
    /\ hub_handler[s].pc = "connected"
    /\ CASE outcome = "ok" ->
                /\ hub_handler' = [hub_handler EXCEPT ![s].pc = "receiving"]
                /\ UNCHANGED <<hub_connections, hub_call>>
         [] outcome = "WebSocketDisconnect" -> HandlerFinally(s)
         [] OTHER ->
                /\ hub_handler' = [hub_handler EXCEPT ![s].pc = "error"]
                /\ UNCHANGED <<hub_connections, hub_call>>
    /\ UNCHANGED hub_calls
    /\ HubStep

\* asyncio.wait_for(websocket.receive_text(), timeout=30.0) ends other than
\* by a received text: timeout, disconnect, or another error
Hub_Receive(s, outcome) ==
    /\ hub_handler[s].pc = "receiving"
    /\ CASE outcome = "TimeoutError" ->     \* send a heartbeat
                /\ hub_handler' = [hub_handler EXCEPT ![s].pc = "heartbeat"]
                /\ UNCHANGED <<hub_connections, hub_call>>
         [] outcome = "WebSocketDisconnect" -> HandlerFinally(s)
         [] OTHER ->
                /\ hub_handler' = [hub_handler EXCEPT ![s].pc = "error"]
                /\ UNCHANGED <<hub_connections, hub_call>>
    /\ UNCHANGED hub_calls
    /\ HubStep

\* the heartbeat send ends: back to receive_text, or break on any exception
Hub_HeartbeatSent(s, ok) ==
    /\ hub_handler[s].pc = "heartbeat"
    /\ IF ok
       THEN /\ hub_handler' = [hub_handler EXCEPT ![s].pc = "receiving"]
            /\ UNCHANGED <<hub_connections, hub_call>>
       ELSE HandlerFinally(s)
    /\ UNCHANGED hub_calls
    /\ HubStep

\* except Exception: the send of the `error` frame ends, whether or not it
\* raised, and the finally block runs
Hub_ErrorFrameSent(s, ok) ==
    /\ hub_handler[s].pc = "error"
    /\ HandlerFinally(s)
    /\ UNCHANGED hub_calls
    /\ HubStep

\* for connection in disconnected: self.disconnect(connection, project_id)
RECURSIVE Prune(_, _, _)
Prune(ac, pid, disconnected) ==
    IF disconnected = {}
    THEN ac
    ELSE LET c == CHOOSE x \in disconnected : TRUE
         IN  Prune(Unregister(ac, pid, c), pid, disconnected \ {c})

\* send_progress(project_id, message) up to its first await: nothing to do
\* without connections, otherwise the iteration over the set starts and the
\* first send is awaited
Hub_SendProgress(pid, first) ==
    /\ hub_call.pc \in {"idle", "returned", "raised"}
    /\ hub_calls < MaxFanOuts
    /\ hub_calls' = hub_calls + 1
    /\ IF ConnectionsOf(hub_connections, pid) = {}
       THEN /\ first = NoSocket
            /\ hub_call' = [NoCall EXCEPT !.pc = "returned", !.project_id = pid]
       ELSE /\ first \in ConnectionsOf(hub_connections, pid)
            /\ hub_call' = [pc |-> "sending", project_id |-> pid,
                            used |-> Cardinality(ConnectionsOf(hub_connections, pid)),
                            live |-> TRUE,
                            at_call |-> ConnectionsOf(hub_connections, pid),
                            current |-> first, sent |-> {first}, disconnected |-> {}]
    /\ UNCHANGED <<hub_connections, hub_handler>>
    /\ HubStep

\* `await connection.send_json(payload)` ends; a failure is recorded in
\* `disconnected`.  Then the set iterator advances: it raises RuntimeError
\* (Set changed size during iteration) when the set's size differs from the
\* size at the start of the loop; it yields a member not yet visited (a
\* member added meanwhile may be visited or not); or the loop ends and the
\* failed sockets are disconnected
Hub_SendEnds(ok, following) ==
    /\ hub_call.pc = "sending"
    /\ LET failed == IF ok THEN hub_call.disconnected
                     ELSE hub_call.disconnected \cup {hub_call.current}
           members == IF hub_call.live
                      THEN ConnectionsOf(hub_connections, hub_call.project_id) ELSE {}
       IN  IF UsedOf(hub_call, hub_connections) # hub_call.used
           THEN /\ following = NoSocket
                /\ hub_call' = [hub_call EXCEPT !.pc = "raised", !.current = NoSocket,
                                                !.disconnected = failed]
                /\ UNCHANGED hub_connections
           ELSE IF following = NoSocket
           THEN /\ (members \cap hub_call.at_call) \subseteq hub_call.sent
                /\ hub_call' = [hub_call EXCEPT !.pc = "returned", !.current = NoSocket,
                                                !.disconnected = failed]
                /\ hub_connections' = Prune(hub_connections, hub_call.project_id, failed)
           ELSE /\ following \in members \ hub_call.sent
                /\ hub_call' = [hub_call EXCEPT !.current = following,
                                                !.sent = @ \cup {following},
                                                !.disconnected = failed]
                /\ UNCHANGED hub_connections
    /\ UNCHANGED <<hub_handler, hub_calls>>
    /\ HubStep

NextHub ==
    \/ \E s \in HubSockets, pid \in HubProjectIds : Hub_Endpoint(s, pid)
    \/ \E s \in HubSockets, ok \in BOOLEAN : Hub_Accepted(s, ok)
    \/ \E s \in HubSockets, outcome \in SendOutcomes : Hub_ConnectedSent(s, outcome)
    \/ \E s \in HubSockets, outcome \in ReceiveOutcomes : Hub_Receive(s, outcome)
    \/ \E s \in HubSockets, ok \in BOOLEAN : Hub_HeartbeatSent(s, ok)
    \/ \E s \in HubSockets, ok \in BOOLEAN : Hub_ErrorFrameSent(s, ok)
    \/ \E pid \in HubProjectIds, first \in HubSockets \cup {NoSocket} :
           Hub_SendProgress(pid, first)
    \/ \E ok \in BOOLEAN, following \in HubSockets \cup {NoSocket} :
           Hub_SendEnds(ok, following)

\* an awaited send of a handler that is leaving always ends
HubFairness ==
    WF_vars(\E s \in HubSockets, ok \in BOOLEAN : Hub_ErrorFrameSent(s, ok))

(***************************************************************************)
(* generate_documents_task: one job, from its first execution to its end   *)
(***************************************************************************)
max_retries == 3          \* @celery_app.task(max_retries=3)
BaseRetryDelay == 60      \* 60 * (2 ** self.request.retries)

TheProject == "project_1"
UserIdeas == {"", "a todo app"}

\* the classes of the exceptions a failing job can see
ExceptionClasses == {"ConnectionError", "TimeoutError", "OSError", "FileNotFoundError",
                     "PermissionError", "ValueError", "RuntimeError",
                     "sqlite3.OperationalError"}

\* a class with its base classes below Exception: in Python 3 ConnectionError,
\* TimeoutError, FileNotFoundError and PermissionError are subclasses of OSError
ClassAndBases(class) ==
    IF class \in {"ConnectionError", "TimeoutError", "FileNotFoundError", "PermissionError"}
    THEN {class, "OSError"}
    ELSE {class}

isinstance(class, classes) == ClassAndBases(class) \cap classes # {}

\* isinstance(exc, (ConnectionError, TimeoutError, OSError))
Retryable == {class \in ExceptionClasses :
                 isinstance(class, {"ConnectionError", "TimeoutError", "OSError"})}
\* what the database can raise during a store call
DatabaseErrors == {"sqlite3.OperationalError"}
\* what the generation can raise
GenerationErrors == Retryable \cup {"ValueError", "RuntimeError"}

\* the result of the generation
Results == [files |-> <<"requirements", "project_charter">>]

\* mutant of RetryDelay: no backoff
RetryDelay_Constant(k) == BaseRetryDelay

\* retry_delay = 60 * (2 ** self.request.retries)
RetryDelay(k) == BaseRetryDelay * (2 ^ k)

\* ContextManager.update_project_status on table `table`; db_error is the
\* error the database raises during the call, or None.  The result is the
\* table after the call and the exception the call raises (None: it returns).
update_project_status(table, project_id, status, idea, completed_agents, results, error, db_error) ==
    IF db_error # None
    THEN [table |-> table, raises |-> db_error]
    ELSE IF project_id \in DOMAIN table
    THEN [table |-> [table EXCEPT ![project_id] =
                        [@ EXCEPT !.status = status,
                                  !.completed_agents =
                                      IF completed_agents # NotGiven
                                      THEN ValueOf(completed_agents) ELSE @,
                                  !.results = IF results # NotGiven THEN ValueOf(results) ELSE @,
                                  !.error = IF error # None THEN error ELSE @,
                                  !.failed_at = IF error # None THEN "now" ELSE @,
                                  !.completed_at =
                                      IF error = None /\ status = "complete" THEN "now" ELSE @]],
          raises |-> None]
    ELSE IF idea = ""
    THEN [table |-> table, raises |-> "ValueError"]
    ELSE [table |-> [q \in DOMAIN table \cup {project_id} |->
                        IF q = project_id
                        THEN [status |-> status, user_idea |-> idea,
                              completed_agents |->
                                  IF completed_agents # NotGiven
                                  THEN ValueOf(completed_agents) ELSE <<>>,
                              results |-> IF results # NotGiven THEN ValueOf(results)
                                          ELSE [files |-> <<>>],
                              error |-> error, started_at |-> "now",
                              completed_at |-> None, failed_at |-> None]
                        ELSE table[q]],
          raises |-> None]

\* what redis.Redis(...) / client.publish raise when the broker cannot be reached
PublishErrors == {"redis.ConnectionError"}

\* mutant of send_websocket_notification: a failing publish is not caught
send_websocket_notification_Propagating(publish_ok) ==
    IF publish_ok THEN None ELSE "redis.ConnectionError"

\* what send_websocket_notification raises: the whole body is inside
\* try ... except Exception, which only logs
send_websocket_notification(publish_ok) == None

\* send_websocket_notification(project_id, {"status": status, ...}): the
\* publish is attempted, and reaches the broker when it is reachable
Notify(status, publish_ok) ==
    /\ notifications' = Append(notifications, status)
    /\ delivered' = IF publish_ok THEN Append(delivered, status) ELSE delivered

\* how the task goes on after the notification sent at position pos, when
\* the call raised `raised`: inside the try block an exception reaches the
\* handler, inside the handler it leaves the task
AfterNotification(pos, raised) ==
    CASE pos = "begin" ->
             [task_pc |-> IF raised = None THEN "init_status" ELSE "except",
              exc |-> raised, countdowns |-> countdowns]
      [] pos = "notify_complete" ->
             [task_pc |-> IF raised = None THEN "SUCCESS" ELSE "except",
              exc |-> raised, countdowns |-> countdowns]
      [] pos = "retry" ->
             [task_pc |-> IF raised = None THEN "RETRY" ELSE "FAILURE",
              exc |-> IF raised = None THEN exc ELSE raised,
              countdowns |-> IF raised = None
                             THEN Append(countdowns, RetryDelay(retries))
                             ELSE countdowns]
      [] pos = "notify_failed" ->
             [task_pc |-> "FAILURE",
              exc |-> IF raised = None THEN exc ELSE raised,
              countdowns |-> countdowns]

\* the table before the job: empty, or holding the row an earlier job of
\* the same project left when it completed
TablesBefore ==
    {<<>>,
     update_project_status(
         update_project_status(<<>>, TheProject, "in_progress", "a todo app",
                               NotGiven, NotGiven, None, None).table,
         TheProject, "complete", "a todo app",
         Given(Results.files), Given(Results), None, None).table}

InitTask ==
    /\ project_status \in TablesBefore
    /\ user_idea \in UserIdeas
    /\ retries = 0
    /\ task_pc = "begin"
    /\ exc = None
    /\ notifications = <<>>
    /\ delivered = <<>>
    /\ countdowns = <<>>

\* the state of this component while another one is checked
IdleTask ==
    /\ project_status = <<>>
    /\ user_idea = ""
    /\ retries = 0
    /\ task_pc = "idle"
    /\ exc = None
    /\ notifications = <<>>
    /\ delivered = <<>>
    /\ countdowns = <<>>

\* the task body up to the first store call: log, notify "started", update_state
Task_Begin(publish_ok) ==
    /\ task_pc = "begin"
    /\ Notify("started", publish_ok)
    /\ LET r == AfterNotification("begin", send_websocket_notification(publish_ok))
       IN /\ task_pc' = r.task_pc
          /\ exc' = r.exc
          /\ countdowns' = r.countdowns
    /\ UNCHANGED <<project_status, user_idea, retries>>
    /\ TaskStep

\* context_manager.update_project_status(status="in_progress", user_idea=..., ...)
Task_InitStatus(db_error) ==
    /\ task_pc = "init_status"
    /\ LET r == update_project_status(project_status, TheProject, "in_progress",
                                      user_idea, NotGiven, NotGiven, None, db_error)
       IN /\ project_status' = r.table
          /\ exc' = r.raises
          /\ task_pc' = IF r.raises = None THEN "generate" ELSE "except"
    /\ UNCHANGED <<user_idea, retries, notifications, delivered, countdowns>>
    /\ TaskStep

\* the coordinator is built and asyncio.run(coordinator.async_generate_all_docs(...))
\* returns the results or raises
Task_Generate(error) ==
    /\ task_pc = "generate"
    /\ exc' = error
    /\ task_pc' = IF error = None THEN "complete_status" ELSE "except"
    /\ UNCHANGED <<project_status, user_idea, retries, notifications, delivered, countdowns>>
    /\ TaskStep

\* mutant of Task_CompleteStatus: the notification follows whether or not
\* the write succeeded
Task_CompleteStatus_Unchecked(db_error) ==
    /\ task_pc = "complete_status"
    /\ LET r == update_project_status(project_status, TheProject, "complete",
                                      user_idea, Given(Results.files), Given(Results), None, db_error)
       IN /\ project_status' = r.table
          /\ exc' = r.raises
          /\ task_pc' = "notify_complete"
    /\ UNCHANGED <<user_idea, retries, notifications, delivered, countdowns>>
    /\ TaskStep

\* context_manager.update_project_status(status="complete", completed_agents=..., results=...)
Task_CompleteStatus(db_error) ==
    /\ task_pc = "complete_status"
    /\ LET r == update_project_status(project_status, TheProject, "complete",
                                      user_idea, Given(Results.files), Given(Results), None, db_error)
       IN /\ project_status' = r.table
          /\ exc' = r.raises
          /\ task_pc' = IF r.raises = None THEN "notify_complete" ELSE "except"
    /\ UNCHANGED <<user_idea, retries, notifications, delivered, countdowns>>
    /\ TaskStep

\* notify "complete" and return {"status": "complete", ...}
Task_NotifyComplete(publish_ok) ==
    /\ task_pc = "notify_complete"
    /\ Notify("complete", publish_ok)
    /\ LET r == AfterNotification("notify_complete", send_websocket_notification(publish_ok))
       IN /\ task_pc' = r.task_pc
          /\ exc' = r.exc
          /\ countdowns' = r.countdowns
    /\ UNCHANGED <<project_status, user_idea, retries>>
    /\ TaskStep

\* mutant of Task_Retry: the status is set to `failed` before the retry is
\* scheduled
Task_Retry_MarksFailed(publish_ok) ==
    /\ task_pc = "except"
    /\ exc \in Retryable /\ max_retries - retries > 0
    /\ Notify("retrying", publish_ok)
    /\ LET r == AfterNotification("retry", send_websocket_notification(publish_ok))
       IN /\ task_pc' = r.task_pc
          /\ exc' = r.exc
          /\ countdowns' = r.countdowns
    /\ project_status' = update_project_status(project_status, TheProject, "failed",
                                               user_idea, NotGiven, NotGiven, exc, None).table
    /\ UNCHANGED <<user_idea, retries>>
    /\ TaskStep

\* except Exception as exc, retry branch: notify "retrying" and
\* raise self.retry(exc=exc, countdown=retry_delay)
Task_Retry(publish_ok) ==
    /\ task_pc = "except"
    /\ exc \in Retryable /\ max_retries - retries > 0
    /\ Notify("retrying", publish_ok)
    /\ LET r == AfterNotification("retry", send_websocket_notification(publish_ok))
       IN /\ task_pc' = r.task_pc
          /\ exc' = r.exc
          /\ countdowns' = r.countdowns
    /\ UNCHANGED <<project_status, user_idea, retries>>
    /\ TaskStep

\* the worker runs the retried job once its countdown is over
Task_RunRetry ==
    /\ task_pc = "RETRY"
    /\ retries' = retries + 1
    /\ exc' = None
    /\ task_pc' = "begin"
    /\ UNCHANGED <<project_status, user_idea, notifications, delivered, countdowns>>
    /\ TaskStep

\* except Exception as exc, final branch:
\* context_manager.update_project_status(status="failed", error=error_message, ...);
\* if this call raises, its exception leaves the task
Task_MarkFailed(db_error) ==
    /\ task_pc = "except"
    /\ ~(exc \in Retryable /\ max_retries - retries > 0)
    /\ LET r == update_project_status(project_status, TheProject, "failed",
                                      user_idea, NotGiven, NotGiven, exc, db_error)
       IN /\ project_status' = r.table
          /\ exc' = IF r.raises = None THEN exc ELSE r.raises
          /\ task_pc' = IF r.raises = None THEN "notify_failed" ELSE "FAILURE"
    /\ UNCHANGED <<user_idea, retries, notifications, delivered, countdowns>>
    /\ TaskStep

\* notify "failed" and re-raise
Task_NotifyFailed(publish_ok) ==
    /\ task_pc = "notify_failed"
    /\ Notify("failed", publish_ok)
    /\ LET r == AfterNotification("notify_failed", send_websocket_notification(publish_ok))
       IN /\ task_pc' = r.task_pc
          /\ exc' = r.exc
          /\ countdowns' = r.countdowns
    /\ UNCHANGED <<project_status, user_idea, retries>>
    /\ TaskStep

NextTask ==
    \/ \E publish_ok \in BOOLEAN : Task_Begin(publish_ok)
    \/ \E e \in DatabaseErrors \cup {None} : Task_InitStatus(e)
    \/ \E e \in GenerationErrors \cup {None} : Task_Generate(e)
    \/ \E e \in DatabaseErrors \cup {None} : Task_CompleteStatus(e)
    \/ \E publish_ok \in BOOLEAN : Task_NotifyComplete(publish_ok)
    \/ \E publish_ok \in BOOLEAN : Task_Retry(publish_ok)
    \/ Task_RunRetry
    \/ \E e \in DatabaseErrors \cup {None} : Task_MarkFailed(e)
    \/ \E publish_ok \in BOOLEAN : Task_NotifyFailed(publish_ok)

(***************************************************************************)
(* ContextManager: the mutating operations of one shared instance          *)
(***************************************************************************)
NStoreThreads == 2

StoreThreads == 1..NStoreThreads

Mutators == {"create_project", "save_requirements", "save_agent_output",
             "save_cross_reference", "update_project_status"}

\* the operations whose body is `with self._lock:`
TakesLock(op) == op \in {"save_requirements", "save_agent_output",
                         "save_cross_reference", "update_project_status"}

\* update_project_status reads the row (SELECT) before it writes
ReadsFirst(op) == op = "update_project_status"

\* the thread is between the first statement of its operation and the end
\* of its commit
InOperation(t) == cm_pc[t] \in {"select", "execute", "commit"}

InitStore ==
    /\ cm_lock = Free
    /\ cm_pc = [t \in StoreThreads |-> "idle"]
    /\ cm_op = [t \in StoreThreads |-> None]
    /\ cm_pending = {}
    /\ cm_committed = {}

\* the state of this component while another one is checked
IdleStore == InitStore

\* a thread calls a mutating operation
Store_Call(t, op) ==
    /\ cm_pc[t] = "idle"
    /\ cm_pc' = [cm_pc EXCEPT ![t] = "enter"]
    /\ cm_op' = [cm_op EXCEPT ![t] = op]
    /\ UNCHANGED <<cm_lock, cm_pending, cm_committed>>
    /\ StoreStep

\* the operation starts: `with self._lock:` where the body has one, then
\* cursor = self.connection.cursor()
Store_Enter(t) ==
    /\ cm_pc[t] = "enter"
    /\ IF TakesLock(cm_op[t])
       THEN /\ cm_lock = Free
            /\ cm_lock' = {t}
       ELSE UNCHANGED cm_lock
    /\ cm_pc' = [cm_pc EXCEPT ![t] = IF ReadsFirst(cm_op[t]) THEN "select" ELSE "execute"]
    /\ UNCHANGED <<cm_op, cm_pending, cm_committed>>
    /\ StoreStep

\* the operation ends, by return or by raise: the lock it holds is released
Store_Leave(t) ==
    /\ cm_pc' = [cm_pc EXCEPT ![t] = "idle"]
    /\ cm_op' = [cm_op EXCEPT ![t] = None]
    /\ cm_lock' = IF cm_lock = {t} THEN Free ELSE cm_lock

\* update_project_status: SELECT status, started_at ...; with no row and
\* no user_idea it raises ValueError
Store_Select(t, raises) ==
    /\ cm_pc[t] = "select"
    /\ IF raises
       THEN Store_Leave(t)
       ELSE /\ cm_pc' = [cm_pc EXCEPT ![t] = "execute"]
            /\ UNCHANGED <<cm_op, cm_lock>>
    /\ UNCHANGED <<cm_pending, cm_committed>>
    /\ StoreStep

\* cursor.execute(INSERT OR REPLACE / UPDATE ...): the statement joins the
\* open transaction of the shared connection; a database error is re-raised
Store_Execute(t, raises) ==
    /\ cm_pc[t] = "execute"
    /\ IF raises
       THEN /\ Store_Leave(t)
            /\ UNCHANGED cm_pending
       ELSE /\ cm_pc' = [cm_pc EXCEPT ![t] = "commit"]
            /\ cm_pending' = cm_pending \cup {<<t, cm_op[t]>>}
            /\ UNCHANGED <<cm_op, cm_lock>>
    /\ UNCHANGED cm_committed
    /\ StoreStep

\* self.connection.commit(): everything pending on the connection is
\* committed, then the operation returns
Store_Commit(t) ==
    /\ cm_pc[t] = "commit"
    /\ cm_committed' = cm_committed \cup {st[2] : st \in cm_pending}
    /\ cm_pending' = {}
    /\ Store_Leave(t)
    /\ StoreStep

NextStore ==
    \/ \E t \in StoreThreads, op \in Mutators : Store_Call(t, op)
    \/ \E t \in StoreThreads : Store_Enter(t)
    \/ \E t \in StoreThreads, raises \in BOOLEAN : Store_Select(t, raises)
    \/ \E t \in StoreThreads, raises \in BOOLEAN : Store_Execute(t, raises)
    \/ \E t \in StoreThreads : Store_Commit(t)

(***************************************************************************)
(* ContextManager.update_project_status and get_project_status: the rows   *)
(***************************************************************************)
MaxStatusCalls == 2       \* update_project_status calls in a behaviour

StatusCaller == 1

StatusProject == "project_1"
OtherStatusProject == "project_2"

\* json.dumps / json.loads of a column value
JsonDumps(value) == <<"json", value>>
JsonLoads(text) == text[2]

\* [] and {}
EmptyList == <<>>
EmptyDict == <<>>

\* the arguments of update_project_status; NotGiven is None
StatusArguments ==
    [status : {"in_progress", "complete", "failed"},
     user_idea : {NotGiven, Given(""), Given("a todo app")},
     profile : {NotGiven, Given("team")},
     provider_name : {NotGiven, Given("gemini")},
     completed_agents : {NotGiven, Given(<<"requirements">>)},
     results : {NotGiven, Given([files |-> <<"requirements">>])},
     error : {NotGiven, Given("boom")}]

\* `if x` / `x or default` for an optional string
TruthyText(opt) == opt # NotGiven /\ ValueOf(opt) # ""

\* `if x` / `x or default` for an optional list or dict
Truthy(opt) == opt # NotGiven /\ DOMAIN ValueOf(opt) # {}

\* if existing: UPDATE project_status SET ... WHERE project_id = ?
UpdatedRow(row, a) ==
    [row EXCEPT
        !.status = a.status,
        !.completed_agents =
            IF a.completed_agents # NotGiven
            THEN Given(IF Truthy(a.completed_agents)
                       THEN JsonDumps(ValueOf(a.completed_agents))
                       ELSE JsonDumps(EmptyList))
            ELSE @,
        !.results =
            IF a.results # NotGiven
            THEN Given(IF Truthy(a.results) THEN JsonDumps(ValueOf(a.results))
                       ELSE JsonDumps(EmptyDict))
            ELSE @,
        !.error = IF a.error # NotGiven THEN a.error ELSE @,
        !.failed_at = IF a.error # NotGiven THEN Given("now") ELSE @,
        !.completed_at = IF a.error = NotGiven /\ a.status = "complete"
                         THEN Given("now") ELSE @]

\* else: INSERT INTO project_status (...) VALUES (...)
InsertedRow(a) ==
    [status |-> a.status,
     user_idea |-> a.user_idea,
     profile |-> a.profile,
     provider_name |-> IF TruthyText(a.provider_name) THEN a.provider_name
                       ELSE Given("default"),
     started_at |-> Given("now"),
     completed_agents |-> Given(JsonDumps(IF Truthy(a.completed_agents)
                                          THEN ValueOf(a.completed_agents)
                                          ELSE EmptyList)),
     results |-> Given(JsonDumps(IF Truthy(a.results) THEN ValueOf(a.results)
                                 ELSE EmptyDict)),
     error |-> a.error,
     completed_at |-> NotGiven,
     failed_at |-> NotGiven]

\* the body of update_project_status inside `with self._lock: try:`; the
\* result is the table after the call and how the call ends
UpdateProjectStatus(rows, project_id, a, db_error) ==
    IF db_error
    THEN [rows |-> rows, outcome |-> "sqlite3.Error"]
    ELSE IF project_id \in DOMAIN rows
    THEN [rows |-> [rows EXCEPT ![project_id] = UpdatedRow(@, a)], outcome |-> "returned"]
    ELSE IF ~TruthyText(a.user_idea)
    THEN [rows |-> rows, outcome |-> "ValueError"]
    ELSE [rows |-> [q \in DOMAIN rows \cup {project_id} |->
                       IF q = project_id THEN InsertedRow(a) ELSE rows[q]],
          outcome |-> "returned"]

\* get_project_status(project_id), for a project that has a row
get_project_status(rows, project_id) ==
    LET row == rows[project_id]
    IN  [status |-> row.status,
         user_idea |-> row.user_idea,
         profile |-> row.profile,
         provider_name |-> row.provider_name,
         started_at |-> row.started_at,
         completed_at |-> row.completed_at,
         failed_at |-> row.failed_at,
         error |-> row.error,
         completed_agents |-> IF row.completed_agents # NotGiven
                              THEN JsonLoads(ValueOf(row.completed_agents))
                              ELSE EmptyList,
         results |-> IF row.results # NotGiven
                     THEN JsonLoads(ValueOf(row.results)) ELSE EmptyDict]

\* mutant of LockAfterBody: an exception leaves the lock held
LockAfterBody_HeldOnRaise(outcome) ==
    IF outcome = "returned" THEN Free ELSE {StatusCaller}

\* leaving `with self._lock:`, by return or by exception
LockAfterBody(outcome) == Free

NoStatusCall == {}

\* a store that holds the status row of another project
InitStatus ==
    /\ ps_rows = [q \in {OtherStatusProject} |->
                     InsertedRow([status |-> "in_progress", user_idea |-> Given("a blog"),
                                  profile |-> NotGiven, provider_name |-> NotGiven,
                                  completed_agents |-> NotGiven, results |-> NotGiven,
                                  error |-> NotGiven])]
    /\ ps_lock = Free
    /\ ps_call = NoStatusCall
    /\ ps_outcomes = <<>>

\* the state of this component while another one is checked
IdleStatus ==
    /\ ps_rows = <<>>
    /\ ps_lock = Free
    /\ ps_call = NoStatusCall
    /\ ps_outcomes = <<>>

\* update_project_status(project_id, ...) is called and enters `with self._lock:`
PS_Call(a) ==
    /\ ps_call = NoStatusCall
    /\ Len(ps_outcomes) < MaxStatusCalls
    /\ ps_lock = Free
    /\ ps_lock' = {StatusCaller}
    /\ ps_call' = {a}
    /\ UNCHANGED <<ps_rows, ps_outcomes>>
    /\ StatusStep

\* the body runs and the call ends
PS_Body(db_error) ==
    /\ ps_call # NoStatusCall
    /\ LET r == UpdateProjectStatus(ps_rows, StatusProject, ValueOf(ps_call), db_error)
       IN  /\ ps_rows' = r.rows
           /\ ps_outcomes' = Append(ps_outcomes, r.outcome)
           /\ ps_lock' = LockAfterBody(r.outcome)
    /\ ps_call' = NoStatusCall
    /\ StatusStep

NextStatus ==
    \/ \E a \in StatusArguments : PS_Call(a)
    \/ \E db_error \in BOOLEAN : PS_Body(db_error)

(***************************************************************************)
(* ContextManager.save_agent_output, get_agent_output and                  *)
(* get_all_agent_outputs: the agent_outputs table                          *)
(***************************************************************************)
MaxSaves == 3             \* save_agent_output calls in a behaviour

\* project ids and AgentType values, as the words that "_" separates
OutputProjects == {<<"project", "1">>, <<"project", "1", "user">>}

AgentTypes == {<<"requirements", "analyst">>, <<"user", "stories">>,
               <<"user", "documentation">>}

\* DocumentStatus values
DocumentStatuses == {"pending", "complete", "failed"}

COMPLETE == "complete"

\* the AgentOutput objects passed to save_agent_output, without the agent type
AgentOutputs ==
    {[content |-> c, status |-> st,
      generated_at |-> IF st = "pending" THEN NotGiven ELSE Given("2026-01-01T00:00:00")] :
        c \in {"# v1", "# v2"}, st \in DocumentStatuses}

\* mutant of OutputId: the key is the project id alone
OutputId_ProjectOnly(project_id, agent_type) == project_id

\* output_id = f"{project_id}_{agent_type.value}"
OutputId(project_id, agent_type) == project_id \o agent_type

\* datetime.isoformat() and datetime.fromisoformat()
IsoFormat(t) == <<"iso", t>>
FromIsoFormat(text) == text[2]

\* the row written by INSERT OR REPLACE INTO agent_outputs
OutputRow(project_id, agent_type, output) ==
    [project_id |-> project_id,
     agent_type |-> agent_type,
     content |-> output.content,
     status |-> output.status,
     generated_at |-> IF output.generated_at # NotGiven
                      THEN Given(IsoFormat(ValueOf(output.generated_at)))
                      ELSE NotGiven]

\* the AgentOutput built from a row
OutputOf(row) ==
    [agent_type |-> row.agent_type,
     content |-> row.content,
     status |-> row.status,
     generated_at |-> IF row.generated_at # NotGiven
                      THEN Given(FromIsoFormat(ValueOf(row.generated_at)))
                      ELSE NotGiven]

\* get_agent_output(project_id, agent_type): the AgentOutput, or None
get_agent_output(table, project_id, agent_type) ==
    IF OutputId(project_id, agent_type) \in DOMAIN table
    THEN Given(OutputOf(table[OutputId(project_id, agent_type)]))
    ELSE NotGiven

\* get_all_agent_outputs(project_id): agent type -> AgentOutput, from the
\* rows WHERE project_id = ? AND status = 'complete'
get_all_agent_outputs(table, project_id) ==
    LET rows == {id \in DOMAIN table : /\ table[id].project_id = project_id
                                       /\ table[id].status = COMPLETE}
    IN  [agent_type \in {table[id].agent_type : id \in rows} |->
            OutputOf(table[CHOOSE id \in rows : table[id].agent_type = agent_type])]

InitOutputs ==
    /\ ao_table = <<>>
    /\ ao_last = [k \in OutputProjects \X AgentTypes |-> NotGiven]
    /\ ao_saves = 0

\* the state of this component while another one is checked
IdleOutputs ==
    /\ ao_table = <<>>
    /\ ao_last = <<>>
    /\ ao_saves = 0

\* save_agent_output(project_id, output): INSERT OR REPLACE and commit under
\* the lock; a database error is logged and re-raised
AO_Save(project_id, agent_type, output, db_error) ==
    /\ ao_saves < MaxSaves
    /\ IF db_error
       THEN UNCHANGED <<ao_table, ao_last, ao_saves>>
       ELSE /\ ao_table' = [id \in DOMAIN ao_table \cup {OutputId(project_id, agent_type)} |->
                               IF id = OutputId(project_id, agent_type)
                               THEN OutputRow(project_id, agent_type, output)
                               ELSE ao_table[id]]
            /\ ao_last' = [ao_last EXCEPT ![<<project_id, agent_type>>] =
                               Given([agent_type |-> agent_type,
                                      content |-> output.content,
                                      status |-> output.status,
                                      generated_at |-> output.generated_at])]
            /\ ao_saves' = ao_saves + 1
    /\ OutputsStep

NextOutputs ==
    \E project_id \in OutputProjects, agent_type \in AgentTypes,
       output \in AgentOutputs, db_error \in BOOLEAN :
        AO_Save(project_id, agent_type, output, db_error)

(***************************************************************************)
(* WorkflowCoordinator.generate_all_docs (fixed pipeline): one run         *)
(***************************************************************************)
Profiles == {"team", "individual", "startup"}

\* mutant of Pipeline: API documentation is generated before the technical
\* documentation it reads
Pipeline_ApiFirst ==
    <<"requirements", "get_shared_context", "project_charter", "pm_documentation",
      "user_stories", "api_documentation", "technical_documentation", "database_schema",
      "setup_guide", "developer_documentation",
      "stakeholder_documentation", "test_documentation", "user_documentation",
      "business_model", "marketing_plan", "support_playbook", "legal_compliance",
      "cross_references", "document_index", "quality_review", "auto_fix",
      "claude_cli_documentation", "format_conversions", "summary">>

\* the steps of generate_all_docs in the order of the code
Pipeline ==
    <<"requirements", "get_shared_context", "project_charter", "pm_documentation",
      "user_stories", "technical_documentation", "database_schema",
      "api_documentation", "setup_guide", "developer_documentation",
      "stakeholder_documentation", "test_documentation", "user_documentation",
      "business_model", "marketing_plan", "support_playbook", "legal_compliance",
      "cross_references", "document_index", "quality_review", "auto_fix",
      "claude_cli_documentation", "format_conversions", "summary">>

\* the keys of doc_type_to_agent: the documents of Steps 1-19
Documents ==
    {"requirements", "project_charter", "pm_documentation", "user_stories",
     "technical_documentation", "database_schema", "api_documentation",
     "setup_guide", "developer_documentation", "stakeholder_documentation",
     "user_documentation", "test_documentation", "business_model",
     "marketing_plan", "support_playbook", "legal_compliance"}

\* every key results["status"] can get
StatusKeys == Documents \cup {"quality_review", "auto_fix", "claude_cli_documentation",
                              "format_conversions"}

\* mutant of TeamOnly: no step is gated by the profile
TeamOnly_Nothing(step) == FALSE

\* the steps under `if profile == "team":`
TeamOnly(step) == step \in {"project_charter", "pm_documentation",
                            "stakeholder_documentation", "business_model",
                            "marketing_plan"}

\* the steps whose exception is caught by a try of their own, and logged
CaughtLocally(step) == step \in {"cross_references", "document_index", "auto_fix",
                                 "claude_cli_documentation", "format_conversions"}

\* mutant of CaughtAtTopLevel: the try of generate_all_docs catches nothing
CaughtAtTopLevel_Nothing(exception) == FALSE

\* except Exception as e: every exception a step raises is an Exception
CaughtAtTopLevel(exception) == exception \in {"ValueError", "RuntimeError"}

\* the outputs of earlier steps that a step passes to its agent, as the
\* arguments of its generate_and_save call
Consumes(step, prof) ==
    CASE step = "project_charter" -> {"requirements"}
      [] step = "pm_documentation" -> {"requirements", "project_charter"}
      [] step = "user_stories" ->
            {"requirements"} \cup (IF prof = "team" THEN {"project_charter"} ELSE {})
      [] step = "technical_documentation" ->
            {"requirements", "user_stories"}
                \cup (IF prof = "team" THEN {"pm_documentation"} ELSE {})
      [] step \in {"database_schema", "api_documentation", "test_documentation",
                   "legal_compliance"} -> {"requirements", "technical_documentation"}
      [] step \in {"setup_guide", "developer_documentation"} ->
            {"requirements", "technical_documentation", "api_documentation"}
      [] step = "stakeholder_documentation" -> {"requirements", "pm_documentation"}
      [] step = "user_documentation" -> {"requirements"}
      [] step = "business_model" -> {"requirements", "project_charter"}
      [] step = "marketing_plan" -> {"requirements", "project_charter", "business_model"}
      [] step = "support_playbook" -> {"requirements", "user_documentation"}
      [] OTHER -> {}

\* an agent's generate_and_save, when it returns: the document is written
\* and context_manager.save_agent_output records it with status COMPLETE
generate_and_save(outputs, doc) == outputs \cup {doc}

CurrentStep == Pipeline[coord_step]

InitCoord ==
    /\ profile \in Profiles
    /\ coord_step = 1
    /\ coord_phase = "ready"
    /\ results_status = [k \in StatusKeys |-> "absent"]
    /\ results_files = {}
    /\ results_error = None
    /\ agent_outputs = {}
    /\ steps_started = {}
    /\ steps_raised = {}

\* the state of this component while another one is checked
IdleCoord ==
    /\ profile = "team"
    /\ coord_step = 1
    /\ coord_phase = "idle"
    /\ results_status = [k \in StatusKeys |-> "absent"]
    /\ results_files = {}
    /\ results_error = None
    /\ agent_outputs = {}
    /\ steps_started = {}
    /\ steps_raised = {}

\* on to the step after `step`, or out of the function after the last one
Coord_Goto(next) ==
    /\ coord_step' = next
    /\ coord_phase' = "ready"

\* a step raises: an exception with no try of its own reaches
\* `except Exception as e: results["error"] = str(e); return results`
Coord_Raise(exception) ==
    /\ steps_raised' = steps_raised \cup {CurrentStep}
    /\ UNCHANGED coord_step
    /\ IF CaughtAtTopLevel(exception)
       THEN /\ results_error' = exception
            /\ coord_phase' = "returned"
       ELSE /\ coord_phase' = "raised"
            /\ UNCHANGED results_error

\* a step under `if profile == "team"` in another profile: status "skipped"
Coord_Skip ==
    /\ coord_phase = "ready"
    /\ TeamOnly(CurrentStep) /\ profile # "team"
    /\ results_status' = [results_status EXCEPT ![CurrentStep] = "skipped"]
    /\ Coord_Goto(coord_step + 1)
    /\ UNCHANGED <<profile, results_files, results_error, agent_outputs,
                   steps_started, steps_raised>>
    /\ CoordStep

\* a step starts: its inputs are read and its agent or tool is called
Coord_Start ==
    /\ coord_phase = "ready"
    /\ ~(TeamOnly(CurrentStep) /\ profile # "team")
    /\ steps_started' = steps_started \cup {CurrentStep}
    /\ coord_phase' = "running"
    /\ UNCHANGED <<profile, coord_step, results_status, results_files, results_error,
                   agent_outputs, steps_raised>>
    /\ CoordStep

\* Steps 1, 3-19: the agent returns the path of the document it saved
Coord_DocumentDone ==
    /\ coord_phase = "running"
    /\ CurrentStep \in Documents
    /\ agent_outputs' = generate_and_save(agent_outputs, CurrentStep)
    /\ results_files' = results_files \cup {CurrentStep}
    /\ results_status' = [results_status EXCEPT ![CurrentStep] = "complete"]
    /\ Coord_Goto(coord_step + 1)
    /\ UNCHANGED <<profile, results_error, steps_started, steps_raised>>
    /\ CoordStep

\* Step 2 finds the requirements; the final summary is built and the
\* results are returned
Coord_PlainStepDone ==
    /\ coord_phase = "running"
    /\ CurrentStep \in {"get_shared_context", "summary"}
    /\ IF CurrentStep = "summary"
       THEN /\ coord_phase' = "returned"
            /\ UNCHANGED coord_step
       ELSE Coord_Goto(coord_step + 1)
    /\ UNCHANGED <<profile, results_status, results_files, results_error, agent_outputs,
                   steps_started, steps_raised>>
    /\ CoordStep

\* the quality reviewer returns its report
Coord_QualityReviewDone ==
    /\ coord_phase = "running"
    /\ CurrentStep = "quality_review"
    /\ results_files' = results_files \cup {"quality_review"}
    /\ results_status' = [results_status EXCEPT !["quality_review"] = "complete"]
    /\ Coord_Goto(coord_step + 1)
    /\ UNCHANGED <<profile, results_error, agent_outputs, steps_started, steps_raised>>
    /\ CoordStep

\* a step with no try of its own raises
Coord_StepRaises(exception) ==
    /\ coord_phase = "running"
    /\ ~CaughtLocally(CurrentStep)
    /\ Coord_Raise(exception)
    /\ UNCHANGED <<profile, results_status, results_files, agent_outputs, steps_started>>
    /\ CoordStep

IndexOf(step) == CHOOSE i \in 1..Len(Pipeline) : Pipeline[i] = step

\* cross-referencing: its failure is logged, and the index, built inside
\* the same try, is not attempted
Coord_CrossReferences(ok) ==
    /\ coord_phase = "running"
    /\ CurrentStep = "cross_references"
    /\ IF ok
       THEN /\ Coord_Goto(coord_step + 1)
            /\ UNCHANGED steps_raised
       ELSE /\ Coord_Goto(IndexOf("quality_review"))
            /\ steps_raised' = steps_raised \cup {CurrentStep}
    /\ UNCHANGED <<profile, results_status, results_files, results_error, agent_outputs,
                   steps_started>>
    /\ CoordStep

\* the document index: results["files"]["document_index"], or a logged failure
Coord_DocumentIndex(ok) ==
    /\ coord_phase = "running"
    /\ CurrentStep = "document_index"
    /\ IF ok
       THEN /\ results_files' = results_files \cup {"document_index"}
            /\ UNCHANGED steps_raised
       ELSE /\ steps_raised' = steps_raised \cup {CurrentStep}
            /\ UNCHANGED results_files
    /\ Coord_Goto(coord_step + 1)
    /\ UNCHANGED <<profile, results_status, results_error, agent_outputs, steps_started>>
    /\ CoordStep

\* the auto-fix loop: disabled, or it leaves its outcome in
\* results["status"]["auto_fix"]; its failure is logged
AutoFixOutcomes == {"disabled", "no improvement needed", "improved", "failed"}

Coord_AutoFix(outcome) ==
    /\ coord_phase = "running"
    /\ CurrentStep = "auto_fix"
    /\ results_status' = IF outcome = "disabled" THEN results_status
                         ELSE [results_status EXCEPT !["auto_fix"] = outcome]
    /\ steps_raised' = IF outcome = "failed" THEN steps_raised \cup {CurrentStep}
                       ELSE steps_raised
    /\ Coord_Goto(coord_step + 1)
    /\ UNCHANGED <<profile, results_files, results_error, agent_outputs, steps_started>>
    /\ CoordStep

\* Claude CLI documentation: generated, or its failure is logged
Coord_ClaudeCli(ok) ==
    /\ coord_phase = "running"
    /\ CurrentStep = "claude_cli_documentation"
    /\ IF ok
       THEN /\ results_files' = results_files \cup {"claude_cli_documentation"}
            /\ results_status' =
                   [results_status EXCEPT !["claude_cli_documentation"] = "complete"]
            /\ UNCHANGED steps_raised
       ELSE /\ steps_raised' = steps_raised \cup {CurrentStep}
            /\ UNCHANGED <<results_files, results_status>>
    /\ Coord_Goto(coord_step + 1)
    /\ UNCHANGED <<profile, results_error, agent_outputs, steps_started>>
    /\ CoordStep

\* format conversion: all formats, else HTML only, else skipped
ConversionOutcomes == {"complete", "partial (HTML only)", "skipped"}

Coord_FormatConversions(outcome) ==
    /\ coord_phase = "running"
    /\ CurrentStep = "format_conversions"
    /\ results_status' = [results_status EXCEPT !["format_conversions"] = outcome]
    /\ results_files' = IF outcome = "skipped" THEN results_files
                        ELSE results_files \cup {"format_conversions"}
    /\ steps_raised' = IF outcome = "complete" THEN steps_raised
                       ELSE steps_raised \cup {CurrentStep}
    /\ Coord_Goto(coord_step + 1)
    /\ UNCHANGED <<profile, results_error, agent_outputs, steps_started>>
    /\ CoordStep

NextCoord ==
    \/ Coord_Skip
    \/ Coord_Start
    \/ Coord_DocumentDone
    \/ Coord_PlainStepDone
    \/ Coord_QualityReviewDone
    \/ \E e \in {"ValueError", "RuntimeError"} : Coord_StepRaises(e)
    \/ \E ok \in BOOLEAN : Coord_CrossReferences(ok)
    \/ \E ok \in BOOLEAN : Coord_DocumentIndex(ok)
    \/ \E o \in AutoFixOutcomes : Coord_AutoFix(o)
    \/ \E ok \in BOOLEAN : Coord_ClaudeCli(ok)
    \/ \E o \in ConversionOutcomes : Coord_FormatConversions(o)

(***************************************************************************)
(* RedisRateLimiter: one instance shared by threads                        *)
(***************************************************************************)
MaxClockSteps == 2          \* how often the clock advances in a behaviour
MaxRecorded == 2            \* record_request calls in a behaviour
max_requests_per_hour == 2  \* the limits the limiter is constructed with
max_requests_per_day == 3
max_requests_per_month == 4

\* the threads that share the limiter
LimiterThreads == {1, 2}

\* now.strftime("%Y-%m-%d-%H"), "%Y-%m-%d", "%Y-%m": the fields are of
\* fixed width, so a key is the sequence of its fields and
\* str.startswith is the prefix relation on sequences
HourKey(c) == <<c.year, c.month, c.day, c.hour>>
DayKey(c) == <<c.year, c.month, c.day>>
MonthKey(c) == <<c.year, c.month>>

StartsWith(k, prefix) ==
    /\ Len(prefix) <= Len(k)
    /\ SubSeq(k, 1, Len(prefix)) = prefix

RECURSIVE SumOver(_, _)
\* sum(v["count"] for k, v in counts.items() if k in keys)
SumOver(counts, keys) ==
    IF keys = {} THEN 0
    ELSE LET k == CHOOSE q \in keys : TRUE
         IN counts[k] + SumOver(counts, keys \ {k})

\* counts.get(key, {}).get("count", 0)
CountOf(counts, key) == IF key \in DOMAIN counts THEN counts[key] ELSE 0

\* month_count of can_make_request: every key that starts with
\* keys["month"].split("-")[0], the year
month_count(counts, keys) ==
    SumOver(counts, {k \in DOMAIN counts : StartsWith(k, <<keys.month[1]>>)})

\* can_make_request, the checks of the limits: TRUE when the request may go
WithinLimits(counts, keys) ==
    /\ ~(CountOf(counts, keys.hour) >= max_requests_per_hour)
    /\ ~(CountOf(counts, keys.day) >= max_requests_per_day)
    /\ ~(month_count(counts, keys) >= max_requests_per_month)

\* record_request: every one of the three keys is created at 0 if absent
\* and incremented
Recorded(counts, keys) ==
    LET ks == {keys.hour, keys.day, keys.month}
    IN [k \in DOMAIN counts \cup ks |->
           IF k \in ks THEN CountOf(counts, k) + 1 ELSE counts[k]]

\* the requests recorded during the period whose key is `prefix`
RequestsIn(recorded, prefix) ==
    SumOver(recorded, {k \in DOMAIN recorded : StartsWith(k, prefix)})

NoResult == [allowed |-> FALSE, hour |-> -1, day |-> -1, month |-> -1, month_seen |-> -1]
NoKeys == [hour |-> <<>>, day |-> <<>>, month |-> <<>>]

InitLimiter ==
    /\ clock \in {[year |-> 2026, month |-> m, day |-> 1, hour |-> 0] : m \in {11, 12}}
    /\ clock_steps = 0
    /\ request_counts = <<>>
    /\ monthly_reset_date = MonthKey(clock)
    /\ rl_lock = Free
    /\ rl_pc = [t \in LimiterThreads |-> "idle"]
    /\ rl_op = [t \in LimiterThreads |-> None]
    /\ rl_keys = [t \in LimiterThreads |-> NoKeys]
    /\ rl_result = [t \in LimiterThreads |-> NoResult]
    /\ rl_recorded = <<>>

\* the state of this component while another one is checked
IdleLimiter ==
    /\ clock = [year |-> 2026, month |-> 11, day |-> 1, hour |-> 0]
    /\ clock_steps = 0
    /\ request_counts = <<>>
    /\ monthly_reset_date = MonthKey(clock)
    /\ rl_lock = Free
    /\ rl_pc = [t \in LimiterThreads |-> "idle"]
    /\ rl_op = [t \in LimiterThreads |-> None]
    /\ rl_keys = [t \in LimiterThreads |-> NoKeys]
    /\ rl_result = [t \in LimiterThreads |-> NoResult]
    /\ rl_recorded = <<>>

\* the wall clock moves on to the next hour, the next day or the next month
Clock_Advance(unit) ==
    /\ clock_steps < MaxClockSteps
    /\ clock_steps' = clock_steps + 1
    /\ clock' =
         CASE unit = "hour" -> [clock EXCEPT !.hour = @ + 1]
           [] unit = "day" -> [clock EXCEPT !.day = @ + 1, !.hour = 0]
           [] unit = "month" ->
                IF clock.month = 12
                THEN [year |-> clock.year + 1, month |-> 1, day |-> 1, hour |-> 0]
                ELSE [clock EXCEPT !.month = @ + 1, !.day = 1, !.hour = 0]
    /\ UNCHANGED <<request_counts, monthly_reset_date, rl_lock, rl_pc, rl_op, rl_keys,
                   rl_result, rl_recorded>>
    /\ LimiterStep

\* a thread calls can_make_request, record_request or get_usage_stats
RL_Call(t, op) ==
    /\ rl_pc[t] = "idle"
    /\ op = "record_request" => SumOver(rl_recorded, DOMAIN rl_recorded) < MaxRecorded
    /\ rl_pc' = [rl_pc EXCEPT ![t] = "with_lock"]
    /\ rl_op' = [rl_op EXCEPT ![t] = op]
    /\ rl_result' = [rl_result EXCEPT ![t] = NoResult]
    /\ UNCHANGED <<clock, clock_steps, request_counts, monthly_reset_date, rl_lock,
                   rl_keys, rl_recorded>>
    /\ LimiterStep

\* `with self._lock:` of threading.Lock, which is not reentrant: the thread
\* goes on once the lock is free.  At the head of a method it then calls
\* _get_period_keys; inside _get_period_keys (month changed) it then resets
\* monthly_reset_date, drops the keys that do not start with the new month
\* key, leaves that `with` and returns the keys
RL_WithLock(t) ==
    /\ rl_pc[t] \in {"with_lock", "reset_with_lock"}
    /\ rl_lock = Free
    /\ IF rl_pc[t] = "with_lock"
       THEN /\ rl_lock' = {t}
            /\ rl_pc' = [rl_pc EXCEPT ![t] = "get_period_keys"]
            /\ UNCHANGED <<monthly_reset_date, request_counts>>
       ELSE /\ monthly_reset_date' = rl_keys[t].month
            /\ request_counts' = [k \in {q \in DOMAIN request_counts :
                                            StartsWith(q, rl_keys[t].month)} |->
                                     request_counts[k]]
            /\ rl_lock' = Free
            /\ rl_pc' = [rl_pc EXCEPT ![t] = "body"]
    /\ UNCHANGED <<clock, clock_steps, rl_op, rl_keys, rl_result, rl_recorded>>
    /\ LimiterStep

\* _get_period_keys: now = datetime.now(), the three keys, and the test
\* of the month against monthly_reset_date
RL_GetPeriodKeys(t) ==
    /\ rl_pc[t] = "get_period_keys"
    /\ rl_keys' = [rl_keys EXCEPT ![t] = [hour |-> HourKey(clock), day |-> DayKey(clock),
                                          month |-> MonthKey(clock)]]
    /\ rl_pc' = [rl_pc EXCEPT ![t] =
                    IF clock.month # monthly_reset_date[2] \/ clock.year # monthly_reset_date[1]
                    THEN "reset_with_lock" ELSE "body"]
    /\ UNCHANGED <<clock, clock_steps, request_counts, monthly_reset_date, rl_lock, rl_op,
                   rl_result, rl_recorded>>
    /\ LimiterStep

\* the rest of the method, up to the end of its `with self._lock:`
RL_Body(t) ==
    /\ rl_pc[t] = "body"
    /\ rl_pc' = [rl_pc EXCEPT ![t] = "idle"]
    /\ rl_op' = [rl_op EXCEPT ![t] = None]
    /\ rl_keys' = [rl_keys EXCEPT ![t] = NoKeys]
    /\ rl_lock' = Free
    /\ IF rl_op[t] = "record_request"
       THEN /\ request_counts' = Recorded(request_counts, rl_keys[t])
            /\ rl_recorded' = [k \in DOMAIN rl_recorded \cup {rl_keys[t].hour} |->
                                  IF k = rl_keys[t].hour THEN CountOf(rl_recorded, k) + 1
                                  ELSE rl_recorded[k]]
       ELSE UNCHANGED <<request_counts, rl_recorded>>
    /\ rl_result' =
         IF rl_op[t] = "can_make_request"
         THEN [rl_result EXCEPT ![t] =
                  [allowed |-> WithinLimits(request_counts, rl_keys[t]),
                   hour |-> RequestsIn(rl_recorded, rl_keys[t].hour),
                   day |-> RequestsIn(rl_recorded, rl_keys[t].day),
                   month |-> RequestsIn(rl_recorded, rl_keys[t].month),
                   month_seen |-> month_count(request_counts, rl_keys[t])]]
         ELSE rl_result
    /\ UNCHANGED <<clock, clock_steps, monthly_reset_date>>
    /\ LimiterStep

NextLimiter ==
    \/ \E unit \in {"hour", "day", "month"} : Clock_Advance(unit)
    \/ \E t \in LimiterThreads,
          op \in {"can_make_request", "record_request", "get_usage_stats"} : RL_Call(t, op)
    \/ \E t \in LimiterThreads : RL_WithLock(t)
    \/ \E t \in LimiterThreads : RL_GetPeriodKeys(t)
    \/ \E t \in LimiterThreads : RL_Body(t)

(***************************************************************************)
(* RedisClientPool.safe_publish: one caller, on the pool's rate limiter    *)
(***************************************************************************)
MaxPublishCalls == 3      \* safe_publish calls in a behaviour

PublishCaller == 0        \* the thread calling safe_publish

\* fallback_func: not given, a function that returns, a function that raises
Fallbacks == {"none", "returns", "raises"}

\* what get_sync_client() / client.publish do
BrokerOutcomes == {"published", "max requests limit exceeded", "ResponseError",
                   "ConnectionError"}

\* _get_period_keys at time c
PeriodKeys(c) == [hour |-> HourKey(c), day |-> DayKey(c), month |-> MonthKey(c)]

\* _get_period_keys is about to reset the month: it runs under the lock of
\* its caller and takes the same lock again
MonthChanged ==
    clock.month # monthly_reset_date[2] \/ clock.year # monthly_reset_date[1]

\* `if fallback_func: try: fallback_func() except Exception: log`
CallFallback ==
    sp_fallback_calls' = IF sp_fallback = "none" THEN sp_fallback_calls
                         ELSE sp_fallback_calls + 1

InitPublish ==
    /\ sp_pc = "idle"
    /\ sp_fallback = "none"
    /\ sp_result = "none"
    /\ sp_refused = FALSE
    /\ sp_contacts = 0
    /\ sp_published = FALSE
    /\ sp_fallback_calls = 0
    /\ sp_counts_before = <<>>
    /\ sp_calls = 0

\* the state of this component while another one is checked
IdlePublish == InitPublish

\* safe_publish(channel, message, fallback_func) is called
SP_Call(fallback) ==
    /\ sp_pc = "idle"
    /\ sp_calls < MaxPublishCalls
    /\ sp_calls' = sp_calls + 1
    /\ sp_pc' = "check_rate_limit"
    /\ sp_fallback' = fallback
    /\ sp_result' = "none"
    /\ sp_refused' = FALSE
    /\ sp_contacts' = 0
    /\ sp_published' = FALSE
    /\ sp_fallback_calls' = 0
    /\ sp_counts_before' = request_counts
    /\ UNCHANGED <<clock, clock_steps, request_counts, monthly_reset_date, rl_lock>>
    /\ PublishStep

\* can_make, error_msg = self.check_rate_limit(); if not can_make: fallback,
\* return False.  On a changed month can_make_request never returns.
SP_CheckRateLimit ==
    /\ sp_pc = "check_rate_limit"
    /\ rl_lock = Free
    /\ IF MonthChanged
       THEN /\ rl_lock' = {PublishCaller}
            /\ sp_pc' = "blocked"
            /\ UNCHANGED <<sp_result, sp_refused, sp_fallback_calls>>
       ELSE IF WithinLimits(request_counts, PeriodKeys(clock))
       THEN /\ sp_pc' = "publish"
            /\ UNCHANGED <<rl_lock, sp_result, sp_refused, sp_fallback_calls>>
       ELSE /\ sp_refused' = TRUE
            /\ CallFallback
            /\ sp_result' = "False"
            /\ sp_pc' = "idle"
            /\ UNCHANGED rl_lock
    /\ UNCHANGED <<clock, clock_steps, request_counts, monthly_reset_date, sp_fallback,
                   sp_contacts, sp_published, sp_counts_before, sp_calls>>
    /\ PublishStep

\* try: client = self.get_sync_client(); ...; client.publish(channel, message)
\* and the except clauses
SP_Publish(outcome) ==
    /\ sp_pc = "publish"
    /\ sp_contacts' = sp_contacts + 1
    /\ sp_published' = (outcome = "published")
    /\ CASE outcome = "published" ->
                /\ sp_pc' = "record_request"
                /\ UNCHANGED <<sp_result, sp_fallback_calls>>
         [] outcome = "max requests limit exceeded" ->
                /\ CallFallback
                /\ sp_result' = "False"
                /\ sp_pc' = "idle"
         [] outcome = "ResponseError" ->
                \* raise
                /\ sp_result' = "ResponseError"
                /\ sp_pc' = "idle"
                /\ UNCHANGED sp_fallback_calls
         [] outcome = "ConnectionError" ->
                /\ CallFallback
                /\ sp_result' = "False"
                /\ sp_pc' = "idle"
    /\ UNCHANGED <<clock, clock_steps, request_counts, monthly_reset_date, rl_lock,
                   sp_fallback, sp_refused, sp_counts_before, sp_calls>>
    /\ PublishStep

\* mutant of SP_RecordRequest: the request is not recorded
SP_RecordRequest_Forgotten ==
    /\ sp_pc = "record_request"
    /\ rl_lock = Free
    /\ sp_result' = "True"
    /\ sp_pc' = "idle"
    /\ UNCHANGED <<request_counts, rl_lock>>
    /\ UNCHANGED <<clock, clock_steps, monthly_reset_date, sp_fallback, sp_refused,
                   sp_contacts, sp_published, sp_fallback_calls, sp_counts_before, sp_calls>>
    /\ PublishStep

\* self.record_request(); return True.  On a changed month record_request
\* never returns.
SP_RecordRequest ==
    /\ sp_pc = "record_request"
    /\ rl_lock = Free
    /\ IF MonthChanged
       THEN /\ rl_lock' = {PublishCaller}
            /\ sp_pc' = "blocked"
            /\ UNCHANGED <<request_counts, sp_result>>
       ELSE /\ request_counts' = Recorded(request_counts, PeriodKeys(clock))
            /\ sp_result' = "True"
            /\ sp_pc' = "idle"
            /\ UNCHANGED rl_lock
    /\ UNCHANGED <<clock, clock_steps, monthly_reset_date, sp_fallback, sp_refused,
                   sp_contacts, sp_published, sp_fallback_calls, sp_counts_before, sp_calls>>
    /\ PublishStep

\* the wall clock moves on while safe_publish runs or between calls
SP_ClockAdvance(unit) ==
    /\ Clock_Advance(unit)
    /\ UNCHANGED spVars

NextPublish ==
    \/ \E fallback \in Fallbacks : SP_Call(fallback)
    \/ SP_CheckRateLimit
    \/ \E outcome \in BrokerOutcomes : SP_Publish(outcome)
    \/ SP_RecordRequest
    \/ \E unit \in {"hour", "day", "month"} : SP_ClockAdvance(unit)

(***************************************************************************)
(* RequestQueue.execute / AsyncRequestQueue.execute: the result cache      *)
(***************************************************************************)
MaxExecuteCalls == 3      \* execute calls in a behaviour
CacheLimit == 100         \* `if len(self.cache) > 100`

\* the callees: two bound methods `generate` of different providers, whose
\* __name__ is the same, and one function of another name
Callees == {[id |-> "provider_a.generate", name |-> "generate"],
            [id |-> "provider_b.generate", name |-> "generate"],
            [id |-> "summarize", name |-> "summarize"]}

NoCallee == [id |-> "none", name |-> "none"]

\* the arguments of the calls: (args, kwargs)
ArgumentLists == {[args |-> <<"prompt 1">>, kwargs |-> "{}"],
                  [args |-> <<"prompt 2">>, kwargs |-> "{}"]}

NoArguments == [args |-> <<>>, kwargs |-> "{}"]

\* cache_key = f"{func.__name__}_{str(args)}_{str(kwargs)}": of the callee
\* only the name enters the key; str() of a tuple of strings and of a dict
\* of strings and numbers determines them
CacheKey(func, a) == [name |-> func.name, args |-> a.args, kwargs |-> a.kwargs]

\* what a callee returns: the answers of an LLM call differ from call to call
Variants == {"first answer", "second answer"}

\* the value callee func returns for arguments a
ResultOf(func, a, variant) == [by |-> func.id, args |-> a, text |-> variant]

\* what a callee raises
CalleeErrors == {"429 Resource exhausted", "ValueError"}

NoOutcome == [kind |-> "none", value |-> ResultOf(NoCallee, NoArguments, "none"), error |-> None]
Returned(v) == [kind |-> "returned", value |-> v, error |-> None]
Raised(e) == [kind |-> "raised", value |-> ResultOf(NoCallee, NoArguments, "none"), error |-> e]

\* mutant of InCache: the lookup never hits
InCache_Never(c, key) == FALSE

\* cache_key in self.cache
InCache(c, key) == \E i \in 1..Len(c) : c[i].key = key

\* self.cache[cache_key]
Lookup(c, key) == c[CHOOSE i \in 1..Len(c) : c[i].key = key].value

\* if len(self.cache) > 100: del self.cache[next(iter(self.cache))]
\* self.cache[cache_key] = result
Store(c, key, v) ==
    LET kept == IF Len(c) > CacheLimit THEN Tail(c) ELSE c
    IN IF \E i \in 1..Len(kept) : kept[i].key = key
       THEN [i \in 1..Len(kept) |-> IF kept[i].key = key
                                    THEN [key |-> key, value |-> v] ELSE kept[i]]
       ELSE Append(kept, [key |-> key, value |-> v])

\* mutant of CacheAfter: what the call ended with is stored in any case
CacheAfter_Always(c, key, outcome) == Store(c, key, outcome.value)

\* the cache after the callee returned or raised: a raising call stores nothing
CacheAfter(c, key, outcome) ==
    IF outcome.kind = "returned" THEN Store(c, key, outcome.value) ELSE c

\* a cache filled by earlier calls with n different prompts, oldest first
Filled(n) ==
    [i \in 1..n |->
        LET a == [args |-> <<"earlier prompt", i>>, kwargs |-> "{}"]
        IN [key |-> [name |-> "generate", args |-> a.args, kwargs |-> a.kwargs],
            value |-> [by |-> "provider_a.generate", args |-> a, text |-> "first answer"]]]

InitCache ==
    /\ cache \in {<<>>, Filled(CacheLimit - 1)}
    /\ ex_pc = "idle"
    /\ ex_callee = NoCallee
    /\ ex_args = NoArguments
    /\ ex_outcome = NoOutcome
    /\ ex_invoked = 0
    /\ ex_waited = FALSE
    /\ ex_timestamps = 0
    /\ ex_cache_before = <<>>
    /\ ex_previous = [callee |-> NoCallee, args |-> NoArguments, kind |-> "none"]
    /\ ex_calls = 0

\* the state of this component while another one is checked
IdleCache ==
    /\ cache = <<>>
    /\ ex_pc = "idle"
    /\ ex_callee = NoCallee
    /\ ex_args = NoArguments
    /\ ex_outcome = NoOutcome
    /\ ex_invoked = 0
    /\ ex_waited = FALSE
    /\ ex_timestamps = 0
    /\ ex_cache_before = <<>>
    /\ ex_previous = [callee |-> NoCallee, args |-> NoArguments, kind |-> "none"]
    /\ ex_calls = 0

\* execute(func, *args, **kwargs): the key and the cache lookup; a hit returns
Execute_Call(func, a) ==
    /\ ex_pc = "idle"
    /\ ex_calls < MaxExecuteCalls
    /\ ex_calls' = ex_calls + 1
    /\ ex_previous' = [callee |-> ex_callee, args |-> ex_args, kind |-> ex_outcome.kind]
    /\ ex_callee' = func
    /\ ex_args' = a
    /\ ex_cache_before' = cache
    /\ ex_invoked' = 0
    /\ ex_waited' = FALSE
    /\ ex_timestamps' = 0
    /\ IF InCache(cache, CacheKey(func, a))
       THEN /\ ex_outcome' = Returned(Lookup(cache, CacheKey(func, a)))
            /\ ex_pc' = "idle"
       ELSE /\ ex_outcome' = NoOutcome
            /\ ex_pc' = "wait_if_needed"
    /\ UNCHANGED cache
    /\ CacheStep

\* self._wait_if_needed(): it returns, after sleeping or not, having appended
\* one timestamp, or (effective max_rate 0) raises IndexError
Execute_WaitIfNeeded(admitted_ok) ==
    /\ ex_pc = "wait_if_needed"
    /\ ex_waited' = TRUE
    /\ IF admitted_ok
       THEN /\ ex_timestamps' = ex_timestamps + 1
            /\ ex_pc' = "invoke"
            /\ UNCHANGED ex_outcome
       ELSE /\ ex_outcome' = Raised("IndexError")
            /\ ex_pc' = "idle"
            /\ UNCHANGED ex_timestamps
    /\ UNCHANGED <<cache, ex_callee, ex_args, ex_invoked, ex_cache_before, ex_previous,
                   ex_calls>>
    /\ CacheStep

\* try: result = func(*args, **kwargs); store; return result
\* except Exception: log; raise
Execute_Invoke(outcome) ==
    /\ ex_pc = "invoke"
    /\ ex_invoked' = ex_invoked + 1
    /\ cache' = CacheAfter(cache, CacheKey(ex_callee, ex_args), outcome)
    /\ ex_outcome' = outcome
    /\ ex_pc' = "idle"
    /\ UNCHANGED <<ex_callee, ex_args, ex_waited, ex_timestamps, ex_cache_before,
                   ex_previous, ex_calls>>
    /\ CacheStep

NextCache ==
    \/ \E func \in Callees, a \in ArgumentLists : Execute_Call(func, a)
    \/ \E admitted_ok \in BOOLEAN : Execute_WaitIfNeeded(admitted_ok)
    \/ \E variant \in Variants :
          Execute_Invoke(Returned(ResultOf(ex_callee, ex_args, variant)))
    \/ \E e \in CalleeErrors : Execute_Invoke(Raised(e))

(***************************************************************************)
(* RequestQueue.__init__ and get_stats: the reported max_rate              *)
(***************************************************************************)
MaxStatsCalls == 3        \* execute calls in a behaviour

DefaultSafetyPercent == 95  \* safety_margin=0.95

\* the max_rate arguments: small ones, and those of the unit tests
ConfiguredRates == {1, 2, 3, 20, 60, 1000}

\* the safety_margin arguments, in percent; NotGiven: argument omitted
SafetyMargins == {NotGiven} \cup {Given(percent) : percent \in {50, 80, 100}}

\* the margin in force
MarginPercent(margin) ==
    IF margin = NotGiven THEN DefaultSafetyPercent ELSE ValueOf(margin)

\* mutant of AppliedMargin: rounded up instead of truncated
AppliedMargin_RoundedUp(m, percent) == (m * percent + 99) \div 100

\* int(max_rate * safety_margin)
AppliedMargin(m, percent) == (m * percent) \div 100

NoStats == [requests_in_window |-> -1, max_rate |-> -1, original_max_rate |-> -1]

\* RequestQueue(max_rate, period, safety_margin)
InitStats ==
    /\ sq_configured \in ConfiguredRates
    /\ sq_margin \in SafetyMargins
    /\ sq_max_rate = AppliedMargin(sq_configured, MarginPercent(sq_margin))
    /\ sq_window = 0
    /\ sq_executed = 0
    /\ sq_stats = NoStats

\* the state of this component while another one is checked
IdleStats ==
    /\ sq_configured = 1
    /\ sq_margin = NotGiven
    /\ sq_max_rate = 0
    /\ sq_window = 0
    /\ sq_executed = 0
    /\ sq_stats = NoStats

\* an execute call: a cache hit returns at once, a miss appends one timestamp
SQ_Execute(cache_hit) ==
    /\ sq_executed < MaxStatsCalls
    /\ sq_executed' = sq_executed + 1
    /\ sq_window' = IF cache_hit THEN sq_window ELSE sq_window + 1
    /\ UNCHANGED <<sq_configured, sq_margin, sq_max_rate, sq_stats>>
    /\ StatsStep

\* get_stats(): the window is cleaned (here: entries expire or not) and the
\* attributes are reported
SQ_GetStats(expired) ==
    /\ expired <= sq_window
    /\ sq_window' = sq_window - expired
    /\ sq_stats' = [requests_in_window |-> sq_window', max_rate |-> sq_max_rate,
                    original_max_rate |-> sq_configured]
    /\ UNCHANGED <<sq_configured, sq_margin, sq_max_rate, sq_executed>>
    /\ StatsStep

NextStats ==
    \/ \E cache_hit \in BOOLEAN : SQ_Execute(cache_hit)
    \/ \E expired \in 0..MaxStatsCalls : SQ_GetStats(expired)

(***************************************************************************)
(* The auto-fix stage of generate_all_docs                                 *)
(***************************************************************************)
MaxSections == 2          \* sections of a quality review
fix_threshold == 70       \* AUTO_FIX_THRESHOLD, default "70.0"
DefaultOverallScore == 100 \* overall_score when the review has no overall score line

NoScore == -1             \* no score line, or doc_score None

\* priority_docs: document key and the section names its score is looked up under
priority_docs ==
    <<[doc |-> "technical_documentation",
       names |-> <<"Technical Specification", "Technical Documentation">>],
      [doc |-> "api_documentation", names |-> <<"API Documentation">>],
      [doc |-> "database_schema", names |-> <<"Database Schema">>],
      [doc |-> "developer_documentation", names |-> <<"Developer Documentation">>],
      [doc |-> "requirements", names |-> <<"Requirements">>]>>

PriorityDocuments == {priority_docs[i].doc : i \in 1..Len(priority_docs)}

\* headings of a review: a section that is about no document, and sections
\* about the first two priority documents
SectionNames == {"Summary", "Technical Documentation", "API Documentation"}

\* a section `## <name>` with, at the start of a line of its text, no score
\* line, a line "Quality Score: <n>/100" or a line "Score: <n>"
ScoreLines == {[fmt |-> "none", score |-> NoScore],
               [fmt |-> "quality", score |-> 40], [fmt |-> "quality", score |-> 90],
               [fmt |-> "short", score |-> 40], [fmt |-> "short", score |-> 100]}

Sections == {[name |-> n, line |-> l] : n \in SectionNames, l \in ScoreLines}

RECURSIVE SeqsUpTo(_, _)
\* the sequences over S of length at most n
SeqsUpTo(S, n) ==
    IF n = 0 THEN {<<>>}
    ELSE LET shorter == SeqsUpTo(S, n - 1)
         IN shorter \cup {Append(q, x) : q \in shorter, x \in S}

\* the first section from i on whose score line has format fmt, or 0: what
\* the lazy `(?:.*?\n)*?` of the patterns finds, headings included
FirstScoreLine(secs, i, fmt) ==
    IF \E j \in i..Len(secs) : secs[j].line.fmt = fmt
    THEN CHOOSE j \in i..Len(secs) :
             /\ secs[j].line.fmt = fmt
             /\ \A k \in i..(j - 1) : secs[k].line.fmt # fmt
    ELSE 0

\* scores[name] = score
SetScore(scores, name, score) ==
    [n \in DOMAIN scores \cup {name} |-> IF n = name THEN score ELSE scores[n]]

RECURSIVE FindQualityScores(_, _, _)
\* re.findall(doc_section_pattern, ...): a match starts at a heading and ends
\* at the next "Quality Score: <n>/100" line; the next match starts after it
FindQualityScores(secs, i, scores) ==
    LET j == FirstScoreLine(secs, i, "quality")
    IN IF i > Len(secs) \/ j = 0 THEN scores
       ELSE FindQualityScores(secs, j + 1, SetScore(scores, secs[i].name, secs[j].line.score))

RECURSIVE FindShortScores(_, _, _)
\* re.findall(alt_pattern, ...): the same with a "Score: <n>" line; a name
\* already scored is kept, and a score of 100 or more is not recorded
FindShortScores(secs, i, scores) ==
    LET j == FirstScoreLine(secs, i, "short")
    IN IF i > Len(secs) \/ j = 0 THEN scores
       ELSE FindShortScores(secs, j + 1,
                IF secs[i].name \notin DOMAIN scores /\ secs[j].line.score < 100
                THEN SetScore(scores, secs[i].name, secs[j].line.score)
                ELSE scores)

\* the reviews: an optional line "Overall Quality Score: <n>/100" and sections
Reviews == [overall : {NoScore, 40, 90}, sections : SeqsUpTo(Sections, MaxSections)]

\* int(overall_scores[0]) if overall_scores else 100
ExtractOverallScore(rev) ==
    IF rev.overall = NoScore THEN DefaultOverallScore ELSE rev.overall

\* document_scores after both patterns were applied
ExtractDocumentScores(rev) ==
    FindShortScores(rev.sections, 1, FindQualityScores(rev.sections, 1, <<>>))

\* doc_score: the score under the first of the names that has one, else None
DocScore(names, scores) ==
    IF \E i \in 1..Len(names) : names[i] \in DOMAIN scores
    THEN scores[names[CHOOSE i \in 1..Len(names) :
                    /\ names[i] \in DOMAIN scores
                    /\ \A k \in 1..(i - 1) : names[k] \notin DOMAIN scores]]
    ELSE NoScore

\* the condition under which a priority document is appended
NeedsImprovement(doc_score, overall) ==
    \/ doc_score # NoScore /\ doc_score < fix_threshold
    \/ doc_score = NoScore /\ overall < fix_threshold

RECURSIVE SelectDocuments(_, _, _, _)
\* the loop over priority_docs, entered only when overall_score < fix_threshold
SelectDocuments(i, generated, scores, overall) ==
    IF i > Len(priority_docs) THEN <<>>
    ELSE LET p == priority_docs[i]
             rest == SelectDocuments(i + 1, generated, scores, overall)
         IN IF p.doc \in generated /\ NeedsImprovement(DocScore(p.names, scores), overall)
            THEN <<p.doc>> \o rest
            ELSE rest

\* the priority documents a run may have collected in all_documentation
CollectedDocuments == {"technical_documentation", "api_documentation", "requirements"}

InitAutoFix ==
    /\ enable_auto_fix \in BOOLEAN
    /\ review \in Reviews
    /\ all_documentation \in SUBSET CollectedDocuments
    /\ af_pc = "start"
    /\ overall_score = NoScore
    /\ document_scores = <<>>
    /\ documents_to_improve = <<>>
    /\ improved_docs = <<>>
    /\ improver_calls = <<>>
    /\ auto_fix_status = "absent"

IdleAutoFix ==
    /\ enable_auto_fix = FALSE
    /\ review = [overall |-> NoScore, sections |-> <<>>]
    /\ all_documentation = {}
    /\ af_pc = "idle"
    /\ overall_score = NoScore
    /\ document_scores = <<>>
    /\ documents_to_improve = <<>>
    /\ improved_docs = <<>>
    /\ improver_calls = <<>>
    /\ auto_fix_status = "absent"

\* enable_auto_fix false: the else branch only logs
AF_Disabled ==
    /\ af_pc = "start"
    /\ ~enable_auto_fix
    /\ af_pc' = "done"
    /\ UNCHANGED <<enable_auto_fix, review, all_documentation, overall_score,
                   document_scores, documents_to_improve, improved_docs,
                   improver_calls, auto_fix_status>>
    /\ AutoFixStep

\* enable_auto_fix true: read the review, extract the scores, choose the
\* documents; a failing read_file is caught by the outer handler
AF_Analyse(read_ok) ==
    /\ af_pc = "start"
    /\ enable_auto_fix
    /\ IF read_ok
       THEN LET overall == ExtractOverallScore(review)
                scores == ExtractDocumentScores(review)
            IN /\ overall_score' = overall
               /\ document_scores' = scores
               /\ documents_to_improve' =
                      IF overall < fix_threshold
                      THEN SelectDocuments(1, all_documentation, scores, overall)
                      ELSE <<>>
               /\ af_pc' = "improve"
               /\ UNCHANGED auto_fix_status
       ELSE /\ auto_fix_status' = "failed"
            /\ af_pc' = "done"
            /\ UNCHANGED <<overall_score, document_scores, documents_to_improve>>
    /\ UNCHANGED <<enable_auto_fix, review, all_documentation, improved_docs,
                   improver_calls>>
    /\ AutoFixStep

\* one pass of the improvement loop: improve_and_save is called for the
\* document; an error of it is logged and the loop goes on
AF_Improve(ok) ==
    /\ af_pc = "improve"
    /\ documents_to_improve # <<>>
    /\ LET doc == Head(documents_to_improve)
       IN /\ improver_calls' = Append(improver_calls, doc)
          /\ improved_docs' = IF ok THEN Append(improved_docs, doc) ELSE improved_docs
    /\ documents_to_improve' = Tail(documents_to_improve)
    /\ UNCHANGED <<enable_auto_fix, review, all_documentation, af_pc, overall_score,
                   document_scores, auto_fix_status>>
    /\ AutoFixStep

\* after the loop: the status entry
AF_Finish ==
    /\ af_pc = "improve"
    /\ documents_to_improve = <<>>
    /\ auto_fix_status' = IF Len(improved_docs) > 0 THEN "improved"
                          ELSE "no improvement needed"
    /\ af_pc' = "done"
    /\ UNCHANGED <<enable_auto_fix, review, all_documentation, overall_score,
                   document_scores, documents_to_improve, improved_docs,
                   improver_calls>>
    /\ AutoFixStep

NextAutoFix ==
    \/ AF_Disabled
    \/ \E read_ok \in BOOLEAN : AF_Analyse(read_ok)
    \/ \E ok \in BOOLEAN : AF_Improve(ok)
    \/ AF_Finish


(***************************************************************************)
(* generate_all_docs, Steps 1-4, calling PMDocumentationAgent as it is in  *)
(* agents/pm_documentation_agent.py, followed by get_workflow_status       *)
(* (coordination/coordinator.py, scripts/test_phase2.py)                   *)
(***************************************************************************)
\* the keyword arguments of the Step 4 call self.pm_agent.generate_and_save(...)
Step4Keywords == {"requirements_summary", "project_charter_summary", "output_filename",
                  "project_id", "context_manager"}

\* the parameters of PMDocumentationAgent.generate_and_save
PMParameters == {"requirements_summary", "output_filename", "project_id", "context_manager"}

\* Python binds a call's keyword arguments to the parameters of the
\* function, and raises TypeError for a keyword that names none of them
Binds(keywords, parameters) == keywords \subseteq parameters

\* how an agent's generate_and_save can end: the LLM call fails, the file
\* write fails, or the document is written and recorded
AgentOutcomes == {"saved", "llm_error", "write_error"}

ExceptionOf(outcome) == IF outcome = "llm_error" THEN "RuntimeError" ELSE "OSError"

\* AgentType of a document of results["files"]
AgentTypeOf(doc) == IF doc = "requirements" THEN "requirements_analyst" ELSE doc

\* the project id the run works under: the argument, or a generated one
PlanProject == IF plan_project_arg = NotGiven THEN "project_generated"
               ELSE ValueOf(plan_project_arg)

InitPlan ==
    /\ plan_idea \in UserIdeas
    /\ plan_project_arg \in {NotGiven, Given("project_1")}
    /\ plan_profile \in Profiles
    /\ plan_pc = "requirements"
    /\ plan_files = {}
    /\ plan_error = None
    /\ plan_disk = {}
    /\ plan_store = <<>>
    /\ plan_faults = {}
    /\ plan_report = NotGiven

\* the state of this component while another one is checked
IdlePlan ==
    /\ plan_idea = ""
    /\ plan_project_arg = NotGiven
    /\ plan_profile = "team"
    /\ plan_pc = "idle"
    /\ plan_files = {}
    /\ plan_error = None
    /\ plan_disk = {}
    /\ plan_store = <<>>
    /\ plan_faults = {}
    /\ plan_report = NotGiven

\* except Exception as e: results["error"] = str(e); return results
Plan_Caught(exception) ==
    /\ plan_error' = exception
    /\ plan_pc' = "returned"

\* an agent's generate_and_save has been entered for `doc`: generate() calls
\* the LLM, write_file writes the document, save_agent_output records it as
\* COMPLETE, and the coordinator stores the returned path
Plan_GenerateAndSave(doc, outcome, next) ==
    /\ plan_disk' = IF outcome = "saved" THEN plan_disk \cup {doc} ELSE plan_disk
    /\ plan_store' = IF outcome = "saved"
                     THEN (AgentTypeOf(doc) :> "complete") @@ plan_store
                     ELSE plan_store
    /\ IF outcome = "saved"
       THEN /\ plan_files' = plan_files \cup {doc}
            /\ plan_pc' = next
            /\ UNCHANGED <<plan_error, plan_faults>>
       ELSE /\ Plan_Caught(ExceptionOf(outcome))
            /\ plan_faults' = plan_faults \cup {doc}
            /\ UNCHANGED plan_files

\* Step 1: the requirements analyst
Plan_Requirements(outcome) ==
    /\ plan_pc = "requirements"
    /\ Plan_GenerateAndSave("requirements", outcome, "get_shared_context")
    /\ UNCHANGED <<plan_idea, plan_project_arg, plan_profile, plan_report>>
    /\ PlanStep

\* Step 2: the requirements are read back from the context
Plan_GetSharedContext ==
    /\ plan_pc = "get_shared_context"
    /\ IF "requirements_analyst" \in DOMAIN plan_store
       THEN /\ plan_pc' = "project_charter"
            /\ UNCHANGED plan_error
       ELSE Plan_Caught("ValueError")
    /\ UNCHANGED <<plan_idea, plan_project_arg, plan_profile, plan_files, plan_disk,
                   plan_store, plan_faults, plan_report>>
    /\ PlanStep

\* Step 3, under `if profile == "team"`: the project charter; in another
\* profile Steps 3 and 4 are skipped
Plan_ProjectCharter(outcome) ==
    /\ plan_pc = "project_charter"
    /\ IF plan_profile = "team"
       THEN Plan_GenerateAndSave("project_charter", outcome, "pm_documentation")
       ELSE /\ outcome = "saved"
            /\ plan_pc' = "later_steps"
            /\ UNCHANGED <<plan_files, plan_error, plan_disk, plan_store, plan_faults>>
    /\ UNCHANGED <<plan_idea, plan_project_arg, plan_profile, plan_report>>
    /\ PlanStep

\* Step 4: self.pm_agent.generate_and_save(requirements_summary=...,
\* project_charter_summary=..., output_filename=..., project_id=...,
\* context_manager=...)
Plan_PMDocumentation(outcome) ==
    /\ plan_pc = "pm_documentation"
    /\ IF Binds(Step4Keywords, PMParameters)
       THEN Plan_GenerateAndSave("pm_documentation", outcome, "later_steps")
       ELSE /\ outcome = "saved"
            /\ Plan_Caught("TypeError")
            /\ UNCHANGED <<plan_files, plan_disk, plan_store, plan_faults>>
    /\ UNCHANGED <<plan_idea, plan_project_arg, plan_profile, plan_report>>
    /\ PlanStep

\* Steps 5-20, taken together: they add documents of their own, and the
\* first of them that raises ends the run with `error`
Plan_LaterSteps(outcome) ==
    /\ plan_pc = "later_steps"
    /\ IF outcome = "saved"
       THEN /\ plan_pc' = "returned"
            /\ UNCHANGED <<plan_error, plan_faults>>
       ELSE /\ Plan_Caught(ExceptionOf(outcome))
            /\ plan_faults' = plan_faults \cup {"later_steps"}
    /\ UNCHANGED <<plan_idea, plan_project_arg, plan_profile, plan_files, plan_disk,
                   plan_store, plan_report>>
    /\ PlanStep

\* get_workflow_status(results["project_id"]) after the run
Plan_GetWorkflowStatus ==
    /\ plan_pc = "returned"
    /\ plan_report' = Given([project_id |-> PlanProject,
                             workflow_status |-> plan_store,
                             completed_agents |->
                                 {a \in DOMAIN plan_store : plan_store[a] = "complete"},
                             total_outputs |-> Cardinality(DOMAIN plan_store)])
    /\ plan_pc' = "reported"
    /\ UNCHANGED <<plan_idea, plan_project_arg, plan_profile, plan_files, plan_error,
                   plan_disk, plan_store, plan_faults>>
    /\ PlanStep

NextPlan ==
    \/ \E outcome \in AgentOutcomes : Plan_Requirements(outcome)
    \/ Plan_GetSharedContext
    \/ \E outcome \in AgentOutcomes : Plan_ProjectCharter(outcome)
    \/ \E outcome \in AgentOutcomes : Plan_PMDocumentation(outcome)
    \/ \E outcome \in AgentOutcomes : Plan_LaterSteps(outcome)
    \/ Plan_GetWorkflowStatus


(***************************************************************************)
(* RequestQueue.execute and AsyncRequestQueue.execute, each translated     *)
(* from its own file, applied to the same calls, clock readings and jitter *)
(* draws                                                                   *)
(***************************************************************************)
MaxTwinCalls == 3         \* execute calls in a behaviour
\* ticks that pass between the end of a call and the next call
Advances == {0, 1, 3}

\* the arguments of the calls
TwinArguments == {[args |-> <<"prompt 1">>, kwargs |-> "{}"]}

\* the callees of the calls: two functions of different names
TwinCallees == {[id |-> "provider_a.generate", name |-> "generate"],
                [id |-> "summarize", name |-> "summarize"]}

\* what one execute call did: the branch _wait_if_needed took, how long it
\* slept, how the call ended, whether the callee was invoked, and when the
\* call ended
NoDecision == [decision |-> "none", wait |-> 0, outcome |-> NoOutcome, invoked |-> FALSE]

\* RequestQueue._wait_if_needed: current_time is read on entry, the window
\* is cleaned at `at_lock`; the result is the branch, the sleep, and the
\* window when the call returns (or raises IndexError on request_times[0])
WaitIfNeeded(times, m, entry, at_lock, jitter) ==
    LET cleaned == CleanOld(times, at_lock) IN
    IF Len(cleaned) >= Threshold(m)
    THEN IF Len(cleaned) >= m
         THEN IF cleaned = <<>>
              THEN [decision |-> "IndexError", wait |-> 0, times |-> cleaned, ends |-> at_lock]
              ELSE LET wait_time == WaitTime(Head(cleaned), entry) IN
                   IF wait_time > 0
                   THEN [decision |-> "block", wait |-> wait_time,
                         times |-> Append(CleanOld(cleaned, at_lock + wait_time),
                                          at_lock + wait_time),
                         ends |-> at_lock + wait_time]
                   ELSE [decision |-> "proceed", wait |-> 0,
                         times |-> Append(cleaned, at_lock), ends |-> at_lock]
         ELSE IF jitter > 0
              THEN [decision |-> "jitter", wait |-> jitter,
                    times |-> Append(cleaned, at_lock + jitter), ends |-> at_lock + jitter]
              ELSE [decision |-> "proceed", wait |-> 0,
                    times |-> Append(cleaned, at_lock), ends |-> at_lock]
    ELSE [decision |-> "proceed", wait |-> 0,
          times |-> Append(cleaned, at_lock), ends |-> at_lock]

\* RequestQueue.execute on queue q with effective max_rate m
Execute(q, m, func, a, callee_outcome, entry, at_lock, jitter) ==
    LET key == CacheKey(func, a) IN
    IF InCache(q.cache, key)
    THEN [queue |-> q, ends |-> entry,
          last |-> [decision |-> "cache hit", wait |-> 0,
                    outcome |-> Returned(Lookup(q.cache, key)), invoked |-> FALSE]]
    ELSE LET w == WaitIfNeeded(q.request_times, m, entry, at_lock, jitter) IN
         IF w.decision = "IndexError"
         THEN [queue |-> [q EXCEPT !.request_times = w.times], ends |-> w.ends,
               last |-> [decision |-> w.decision, wait |-> 0,
                         outcome |-> Raised("IndexError"), invoked |-> FALSE]]
         ELSE [queue |-> [request_times |-> w.times,
                          cache |-> CacheAfter(q.cache, key, callee_outcome)],
               ends |-> w.ends,
               last |-> [decision |-> w.decision, wait |-> w.wait,
                         outcome |-> callee_outcome, invoked |-> TRUE]]

RECURSIVE AsyncCleanOld_Inclusive(_, _)
\* mutant of AsyncCleanOld: a timestamp exactly one period old is dropped too
AsyncCleanOld_Inclusive(times, t) ==
    IF times # <<>> /\ Head(times) <= t - period
    THEN AsyncCleanOld_Inclusive(Tail(times), t)
    ELSE times

RECURSIVE AsyncCleanOld(_, _)
\* AsyncRequestQueue._clean_old_requests
AsyncCleanOld(times, t) ==
    IF times # <<>> /\ Head(times) < t - period
    THEN AsyncCleanOld(Tail(times), t)
    ELSE times

\* AsyncRequestQueue._wait_if_needed
AsyncWaitIfNeeded(times, m, entry, at_lock, jitter) ==
    LET cleaned == AsyncCleanOld(times, at_lock)
        threshold == (m * 80) \div 100
        proceed == [decision |-> "proceed", wait |-> 0,
                    times |-> Append(cleaned, at_lock), ends |-> at_lock]
    IN IF Len(cleaned) < threshold THEN proceed
       ELSE IF Len(cleaned) < m
       THEN IF jitter > 0
            THEN [decision |-> "jitter", wait |-> jitter,
                  times |-> Append(cleaned, at_lock + jitter), ends |-> at_lock + jitter]
            ELSE proceed
       ELSE IF Len(cleaned) = 0
       THEN [decision |-> "IndexError", wait |-> 0, times |-> cleaned, ends |-> at_lock]
       ELSE LET wait_time == (cleaned[1] + period) - entry + Buffer IN
            IF wait_time > 0
            THEN [decision |-> "block", wait |-> wait_time,
                  times |-> Append(AsyncCleanOld(cleaned, at_lock + wait_time),
                                   at_lock + wait_time),
                  ends |-> at_lock + wait_time]
            ELSE proceed

\* AsyncRequestQueue.execute on queue q with effective max_rate m
AsyncExecute(q, m, func, a, callee_outcome, entry, at_lock, jitter) ==
    LET cache_key == [name |-> func.name, args |-> a.args, kwargs |-> a.kwargs]
        hits == {i \in 1..Len(q.cache) : q.cache[i].key = cache_key}
    IN IF hits # {}
       THEN [queue |-> q, ends |-> entry,
             last |-> [decision |-> "cache hit", wait |-> 0,
                       outcome |-> Returned(q.cache[CHOOSE i \in hits : TRUE].value),
                       invoked |-> FALSE]]
       ELSE LET w == AsyncWaitIfNeeded(q.request_times, m, entry, at_lock, jitter)
                kept == IF Len(q.cache) > 100 THEN Tail(q.cache) ELSE q.cache
                entry_of_key == [key |-> cache_key, value |-> callee_outcome.value]
            IN IF w.decision = "IndexError"
               THEN [queue |-> [q EXCEPT !.request_times = w.times], ends |-> w.ends,
                     last |-> [decision |-> w.decision, wait |-> 0,
                               outcome |-> Raised("IndexError"), invoked |-> FALSE]]
               ELSE [queue |-> [request_times |-> w.times,
                                cache |-> IF callee_outcome.kind = "returned"
                                          THEN Append(kept, entry_of_key)
                                          ELSE q.cache],
                     ends |-> w.ends,
                     last |-> [decision |-> w.decision, wait |-> w.wait,
                               outcome |-> callee_outcome, invoked |-> TRUE]]

InitTwin ==
    /\ tw_max_rate_cfg \in 1..MaxRateCfg
    /\ tw_now = 0
    /\ tw_sync = [request_times |-> <<>>, cache |-> <<>>]
    /\ tw_async = [request_times |-> <<>>, cache |-> <<>>]
    /\ tw_sync_last = NoDecision
    /\ tw_async_last = NoDecision
    /\ tw_calls = 0

\* the state of this component while another one is checked
IdleTwin ==
    /\ tw_max_rate_cfg = 1
    /\ tw_now = 0
    /\ tw_sync = [request_times |-> <<>>, cache |-> <<>>]
    /\ tw_async = [request_times |-> <<>>, cache |-> <<>>]
    /\ tw_sync_last = NoDecision
    /\ tw_async_last = NoDecision
    /\ tw_calls = 0

\* the same call is made on both queues, `advance` ticks after the call
\* before ended: both see the same clock readings (one caller at a time, so
\* the lock is free and the readings of a call before its sleep are one
\* instant), the same jitter draw and the same behaviour of the callee
Twin_Execute(func, a, callee_outcome, advance, jitter) ==
    /\ tw_calls < MaxTwinCalls
    /\ tw_calls' = tw_calls + 1
    /\ LET entry == tw_now + advance
           m == EffectiveMaxRate(tw_max_rate_cfg)
           sync == Execute(tw_sync, m, func, a, callee_outcome, entry, entry, jitter)
           async == AsyncExecute(tw_async, m, func, a, callee_outcome, entry, entry, jitter)
       IN /\ tw_sync' = sync.queue
          /\ tw_async' = async.queue
          /\ tw_sync_last' = sync.last
          /\ tw_async_last' = async.last
          /\ tw_now' = IF sync.ends >= async.ends THEN sync.ends ELSE async.ends
    /\ UNCHANGED tw_max_rate_cfg
    /\ TwinStep

NextTwin ==
    \/ \E func \in TwinCallees, a \in TwinArguments, advance \in Advances,
          jitter \in 0..MaxJitter :
          \/ Twin_Execute(func, a, Returned(ResultOf(func, a, "first answer")),
                          advance, jitter)
          \/ Twin_Execute(func, a, Raised("ValueError"), advance, jitter)


(***************************************************************************)
(* websocket_endpoint: the receive loop of one connection and its          *)
(* 30-second timeout                                                       *)
(***************************************************************************)
MaxWaits == 4             \* waits of the loop that end in a behaviour
HeartbeatTimeout == 30    \* asyncio.wait_for(..., timeout=30.0)
TickSeconds == 10         \* the step of the clock

\* mutant of AfterHeartbeat: a failed heartbeat send is ignored and the
\* loop goes on
AfterHeartbeat_KeepsGoing(ok) ==
    /\ hb_pc' = "receiving"
    /\ hb_waited' = 0
    /\ UNCHANGED hb_registered

\* try: await websocket.send_json({"type": "heartbeat", ...})
\* except Exception: break  -- and the finally block disconnects
AfterHeartbeat(ok) ==
    IF ok
    THEN /\ hb_pc' = "receiving"
         /\ hb_waited' = 0
         /\ UNCHANGED hb_registered
    ELSE /\ hb_pc' = "ended"
         /\ hb_registered' = FALSE
         /\ UNCHANGED hb_waited

\* connect() has registered the socket, the `connected` frame is sent and
\* the loop awaits its first receive_text
InitLoop ==
    /\ hb_registered = TRUE
    /\ hb_pc = "receiving"
    /\ hb_waited = 0
    /\ hb_timeouts = 0
    /\ hb_attempts = 0
    /\ hb_sent = <<"connected">>
    /\ hb_received = 0

\* the state of this component while another one is checked
IdleLoop ==
    /\ hb_registered = FALSE
    /\ hb_pc = "idle"
    /\ hb_waited = 0
    /\ hb_timeouts = 0
    /\ hb_attempts = 0
    /\ hb_sent = <<>>
    /\ hb_received = 0

\* time passes while receive_text is awaited and no frame arrives
Loop_Tick ==
    /\ hb_pc = "receiving"
    /\ hb_waited < HeartbeatTimeout
    /\ hb_waited' = hb_waited + TickSeconds
    /\ UNCHANGED <<hb_registered, hb_pc, hb_timeouts, hb_attempts, hb_sent, hb_received>>
    /\ LoopStep

\* receive_text returns a client frame before the timeout: the text is
\* dropped and `while True` awaits the next wait_for
Loop_Frame ==
    /\ hb_pc = "receiving"
    /\ hb_waited < HeartbeatTimeout
    /\ hb_timeouts + hb_received < MaxWaits
    /\ hb_received' = hb_received + 1
    /\ hb_waited' = 0
    /\ UNCHANGED <<hb_registered, hb_pc, hb_timeouts, hb_attempts, hb_sent>>
    /\ LoopStep

\* except asyncio.TimeoutError: the wait has lasted 30 seconds; the handler
\* calls send_json for a heartbeat
Loop_Timeout ==
    /\ hb_pc = "receiving"
    /\ hb_waited >= HeartbeatTimeout
    /\ hb_timeouts + hb_received < MaxWaits
    /\ hb_timeouts' = hb_timeouts + 1
    /\ hb_attempts' = hb_attempts + 1
    /\ hb_pc' = "heartbeat"
    /\ UNCHANGED <<hb_registered, hb_waited, hb_sent, hb_received>>
    /\ LoopStep

\* the heartbeat send ends
Loop_HeartbeatSent(ok) ==
    /\ hb_pc = "heartbeat"
    /\ hb_sent' = IF ok THEN Append(hb_sent, "heartbeat") ELSE hb_sent
    /\ AfterHeartbeat(ok)
    /\ UNCHANGED <<hb_timeouts, hb_attempts, hb_received>>
    /\ LoopStep

\* except WebSocketDisconnect: break; finally: disconnect
Loop_Disconnect ==
    /\ hb_pc = "receiving"
    /\ hb_waited < HeartbeatTimeout
    /\ hb_pc' = "ended"
    /\ hb_registered' = FALSE
    /\ UNCHANGED <<hb_waited, hb_timeouts, hb_attempts, hb_sent, hb_received>>
    /\ LoopStep

NextLoop ==
    \/ Loop_Tick
    \/ Loop_Frame
    \/ Loop_Timeout
    \/ \E ok \in BOOLEAN : Loop_HeartbeatSent(ok)
    \/ Loop_Disconnect


(***************************************************************************)
(* RedisClientPool.safe_publish called from several threads: the check of  *)
(* the limits, the publish and the recording are three separate steps      *)
(***************************************************************************)
MaxCrowdCalls == 4        \* safe_publish calls in a behaviour

\* the threads publishing through the shared pool
PublishThreads == {1, 2}

InitCrowd ==
    /\ mp_counts = <<>>
    /\ mp_pc = [t \in PublishThreads |-> "idle"]
    /\ mp_sent = 0
    /\ mp_calls = 0

\* the state of this component while another one is checked
IdleCrowd == InitCrowd

\* a thread calls safe_publish
Crowd_Call(t) ==
    /\ mp_pc[t] = "idle"
    /\ mp_calls < MaxCrowdCalls
    /\ mp_calls' = mp_calls + 1
    /\ mp_pc' = [mp_pc EXCEPT ![t] = "check_rate_limit"]
    /\ UNCHANGED <<mp_counts, mp_sent>>
    /\ CrowdStep

\* can_make, error_msg = self.check_rate_limit(): can_make_request reads the
\* counts inside `with self._lock` and releases the lock when it returns;
\* `if not can_make: ... return False`
Crowd_CheckRateLimit(t) ==
    /\ mp_pc[t] = "check_rate_limit"
    /\ mp_pc' = [mp_pc EXCEPT ![t] = IF WithinLimits(mp_counts, PeriodKeys(clock))
                                     THEN "publish" ELSE "idle"]
    /\ UNCHANGED <<mp_counts, mp_sent, mp_calls>>
    /\ CrowdStep

\* client.publish(channel, message): the broker takes the message, or the
\* call raises and safe_publish returns False or re-raises
Crowd_Publish(t, published) ==
    /\ mp_pc[t] = "publish"
    /\ mp_sent' = IF published THEN mp_sent + 1 ELSE mp_sent
    /\ mp_pc' = [mp_pc EXCEPT ![t] = IF published THEN "record_request" ELSE "idle"]
    /\ UNCHANGED <<mp_counts, mp_calls>>
    /\ CrowdStep

\* self.record_request(): the three counters are incremented inside
\* `with self._lock`; return True
Crowd_RecordRequest(t) ==
    /\ mp_pc[t] = "record_request"
    /\ mp_counts' = Recorded(mp_counts, PeriodKeys(clock))
    /\ mp_pc' = [mp_pc EXCEPT ![t] = "idle"]
    /\ UNCHANGED <<mp_sent, mp_calls>>
    /\ CrowdStep

NextCrowd ==
    \/ \E t \in PublishThreads : Crowd_Call(t)
    \/ \E t \in PublishThreads : Crowd_CheckRateLimit(t)
    \/ \E t \in PublishThreads, published \in BOOLEAN : Crowd_Publish(t, published)
    \/ \E t \in PublishThreads : Crowd_RecordRequest(t)


(***************************************************************************)
(* ContextManager.get_shared_context and save_cross_reference, with        *)
(* save_agent_output running in other threads; get_workflow_status         *)
(***************************************************************************)
MaxContextSaves == 2      \* save calls in a behaviour

\* project ids and document names, as the words that "_" separates
RefProjects == {<<"project", "1">>, <<"project", "1", "user">>}
RefDocuments == {<<"user", "stories">>, <<"stories">>, <<"user">>}
RefTargets == {<<"index">>, <<"stories", "index">>}

\* the agent types that save outputs for the project
ContextAgents == {"requirements_analyst", "technical_documentation"}

\* ref_id = f"{project_id}_{ref.from_document}_{ref.to_document}"
RefId(project_id, from_document, to_document) ==
    project_id \o from_document \o to_document

\* the cross-references of a project, as get_shared_context lists them:
\* SELECT * FROM cross_references WHERE project_id = ?
CrossReferencesOf(refs, project_id) ==
    {[from_document |-> refs[id].from_document, to_document |-> refs[id].to_document] :
        id \in {q \in DOMAIN refs : refs[q].project_id = project_id}}

NoView == [agent_outputs |-> {}, workflow_status |-> <<>>, cross_references |-> {}]
NoReport == [completed_agents |-> {}, total_outputs |-> -1]

InitContext ==
    /\ sc_outputs = <<>>
    /\ sc_refs = <<>>
    /\ sc_saved_refs = {}
    /\ sc_pc = "idle"
    /\ sc_project = <<"project", "1">>
    /\ sc_view = NoView
    /\ sc_report = NoReport
    /\ sc_saves = 0

\* the state of this component while another one is checked
IdleContext == InitContext

\* another thread: save_agent_output(project_id, output) for the project
\* being read, INSERT OR REPLACE and commit under the lock
Context_SaveAgentOutput(agent_type, status) ==
    /\ sc_saves < MaxContextSaves
    /\ sc_saves' = sc_saves + 1
    /\ sc_outputs' = [a \in DOMAIN sc_outputs \cup {agent_type} |->
                         IF a = agent_type THEN status ELSE sc_outputs[a]]
    /\ UNCHANGED <<sc_refs, sc_saved_refs, sc_pc, sc_project, sc_view, sc_report>>
    /\ ContextStep

\* save_cross_reference(project_id, ref): INSERT OR REPLACE under ref_id
Context_SaveCrossReference(project_id, from_document, to_document) ==
    /\ sc_saves < MaxContextSaves
    /\ sc_saves' = sc_saves + 1
    /\ LET ref_id == RefId(project_id, from_document, to_document) IN
       sc_refs' = [id \in DOMAIN sc_refs \cup {ref_id} |->
                      IF id = ref_id
                      THEN [project_id |-> project_id, from_document |-> from_document,
                            to_document |-> to_document]
                      ELSE sc_refs[id]]
    /\ sc_saved_refs' = sc_saved_refs \cup {<<project_id, from_document, to_document>>}
    /\ UNCHANGED <<sc_outputs, sc_pc, sc_project, sc_view, sc_report>>
    /\ ContextStep

\* get_shared_context(project_id): the project row and the requirements
\* are read; no lock is taken
Context_Begin(project_id) ==
    /\ sc_pc \in {"idle", "returned"}
    /\ sc_saves < MaxContextSaves \/ sc_pc = "idle"
    /\ sc_project' = project_id
    /\ sc_view' = NoView
    /\ sc_pc' = "get_all_agent_outputs"
    /\ UNCHANGED <<sc_outputs, sc_refs, sc_saved_refs, sc_report, sc_saves>>
    /\ ContextStep

\* agent_outputs = self.get_all_agent_outputs(project_id): the rows with
\* status COMPLETE
Context_ReadOutputs ==
    /\ sc_pc = "get_all_agent_outputs"
    /\ sc_view' = [sc_view EXCEPT !.agent_outputs =
                      {a \in DOMAIN sc_outputs : sc_outputs[a] = COMPLETE}]
    /\ sc_pc' = "workflow_status"
    /\ UNCHANGED <<sc_outputs, sc_refs, sc_saved_refs, sc_project, sc_report, sc_saves>>
    /\ ContextStep

\* SELECT agent_type, status FROM agent_outputs WHERE project_id = ?
Context_ReadWorkflowStatus ==
    /\ sc_pc = "workflow_status"
    /\ sc_view' = [sc_view EXCEPT !.workflow_status = sc_outputs]
    /\ sc_pc' = "cross_references"
    /\ UNCHANGED <<sc_outputs, sc_refs, sc_saved_refs, sc_project, sc_report, sc_saves>>
    /\ ContextStep

\* SELECT * FROM cross_references WHERE project_id = ?; the SharedContext is
\* returned and get_workflow_status builds its report from it
Context_ReadCrossReferences ==
    /\ sc_pc = "cross_references"
    /\ sc_view' = [sc_view EXCEPT !.cross_references = CrossReferencesOf(sc_refs, sc_project)]
    /\ sc_report' = [completed_agents |->
                         {a \in DOMAIN sc_view.workflow_status :
                             sc_view.workflow_status[a] = COMPLETE},
                     total_outputs |-> Cardinality(sc_view.agent_outputs)]
    /\ sc_pc' = "returned"
    /\ UNCHANGED <<sc_outputs, sc_refs, sc_saved_refs, sc_project, sc_saves>>
    /\ ContextStep

NextContext ==
    \/ \E agent_type \in ContextAgents, status \in DocumentStatuses :
          Context_SaveAgentOutput(agent_type, status)
    \/ \E project_id \in RefProjects, from_document \in RefDocuments,
          to_document \in RefTargets :
          Context_SaveCrossReference(project_id, from_document, to_document)
    \/ \E project_id \in RefProjects : Context_Begin(project_id)
    \/ Context_ReadOutputs
    \/ Context_ReadWorkflowStatus
    \/ Context_ReadCrossReferences

(***************************************************************************)
(* Specifications: one per component, the others held at their idle state  *)
(***************************************************************************)
\* the queue alone: every other component stays as constructed
QueueAlone ==
    /\ InitQueue
    /\ IdleWS
    /\ IdleTask
    /\ IdleStore
    /\ IdleCoord
    /\ IdleLimiter
    /\ IdleAutoFix
    /\ IdlePublish
    /\ IdleCache
    /\ IdleStats
    /\ IdleHub
    /\ IdleStatus
    /\ IdleOutputs
    /\ IdlePlan
    /\ IdleTwin
    /\ IdleLoop
    /\ IdleCrowd
    /\ IdleContext

SpecQueue == QueueAlone /\ [][NextQueue]_vars

\* the WebSocket endpoint alone
WSAlone ==
    /\ InitWS
    /\ IdleQueue
    /\ IdleTask
    /\ IdleStore
    /\ IdleCoord
    /\ IdleLimiter
    /\ IdleAutoFix
    /\ IdlePublish
    /\ IdleCache
    /\ IdleStats
    /\ IdleHub
    /\ IdleStatus
    /\ IdleOutputs
    /\ IdlePlan
    /\ IdleTwin
    /\ IdleLoop
    /\ IdleCrowd
    /\ IdleContext

SpecWS == WSAlone /\ [][NextWS]_vars

\* one generation job alone
TaskAlone ==
    /\ InitTask
    /\ IdleQueue
    /\ IdleWS
    /\ IdleStore
    /\ IdleCoord
    /\ IdleLimiter
    /\ IdleAutoFix
    /\ IdlePublish
    /\ IdleCache
    /\ IdleStats
    /\ IdleHub
    /\ IdleStatus
    /\ IdleOutputs
    /\ IdlePlan
    /\ IdleTwin
    /\ IdleLoop
    /\ IdleCrowd
    /\ IdleContext

SpecTask == TaskAlone /\ [][NextTask]_vars

\* the threads that share one ContextManager
StoreAlone ==
    /\ InitStore
    /\ IdleQueue
    /\ IdleWS
    /\ IdleTask
    /\ IdleCoord
    /\ IdleLimiter
    /\ IdleAutoFix
    /\ IdlePublish
    /\ IdleCache
    /\ IdleStats
    /\ IdleHub
    /\ IdleStatus
    /\ IdleOutputs
    /\ IdlePlan
    /\ IdleTwin
    /\ IdleLoop
    /\ IdleCrowd
    /\ IdleContext

SpecStore == StoreAlone /\ [][NextStore]_vars

\* one run of generate_all_docs
CoordAlone ==
    /\ InitCoord
    /\ IdleQueue
    /\ IdleWS
    /\ IdleTask
    /\ IdleStore
    /\ IdleLimiter
    /\ IdleAutoFix
    /\ IdlePublish
    /\ IdleCache
    /\ IdleStats
    /\ IdleHub
    /\ IdleStatus
    /\ IdleOutputs
    /\ IdlePlan
    /\ IdleTwin
    /\ IdleLoop
    /\ IdleCrowd
    /\ IdleContext

SpecCoord == CoordAlone /\ [][NextCoord]_vars

\* the threads that share one RedisRateLimiter
LimiterAlone ==
    /\ InitLimiter
    /\ IdleQueue
    /\ IdleWS
    /\ IdleTask
    /\ IdleStore
    /\ IdleCoord
    /\ IdleAutoFix
    /\ IdlePublish
    /\ IdleCache
    /\ IdleStats
    /\ IdleHub
    /\ IdleStatus
    /\ IdleOutputs
    /\ IdlePlan
    /\ IdleTwin
    /\ IdleLoop
    /\ IdleCrowd
    /\ IdleContext

SpecRedis == LimiterAlone /\ [][NextLimiter]_vars

AutoFixAlone ==
    /\ InitAutoFix
    /\ IdleQueue
    /\ IdleWS
    /\ IdleTask
    /\ IdleStore
    /\ IdleCoord
    /\ IdleLimiter
    /\ IdlePublish
    /\ IdleCache
    /\ IdleStats
    /\ IdleHub
    /\ IdleStatus
    /\ IdleOutputs
    /\ IdlePlan
    /\ IdleTwin
    /\ IdleLoop
    /\ IdleCrowd
    /\ IdleContext

SpecAutoFix == AutoFixAlone /\ [][NextAutoFix]_vars

PublishAlone ==
    /\ InitPublish
    /\ InitLimiter
    /\ IdleQueue
    /\ IdleWS
    /\ IdleTask
    /\ IdleStore
    /\ IdleCoord
    /\ IdleAutoFix
    /\ IdleCache
    /\ IdleStats
    /\ IdleHub
    /\ IdleStatus
    /\ IdleOutputs
    /\ IdlePlan
    /\ IdleTwin
    /\ IdleLoop
    /\ IdleCrowd
    /\ IdleContext

SpecPublish == PublishAlone /\ [][NextPublish]_vars

CacheAlone ==
    /\ InitCache
    /\ IdleQueue
    /\ IdleWS
    /\ IdleTask
    /\ IdleStore
    /\ IdleCoord
    /\ IdleLimiter
    /\ IdleAutoFix
    /\ IdlePublish
    /\ IdleStats
    /\ IdleHub
    /\ IdleStatus
    /\ IdleOutputs
    /\ IdlePlan
    /\ IdleTwin
    /\ IdleLoop
    /\ IdleCrowd
    /\ IdleContext

SpecCache == CacheAlone /\ [][NextCache]_vars

StatsAlone ==
    /\ InitStats
    /\ IdleQueue
    /\ IdleWS
    /\ IdleTask
    /\ IdleStore
    /\ IdleCoord
    /\ IdleLimiter
    /\ IdleAutoFix
    /\ IdlePublish
    /\ IdleCache
    /\ IdleHub
    /\ IdleStatus
    /\ IdleOutputs
    /\ IdlePlan
    /\ IdleTwin
    /\ IdleLoop
    /\ IdleCrowd
    /\ IdleContext

SpecStats == StatsAlone /\ [][NextStats]_vars

\* the WebSocket endpoint alone, with one project one connection below the limit
WSLoadedAlone ==
    /\ InitWSLoaded
    /\ IdleQueue
    /\ IdleTask
    /\ IdleStore
    /\ IdleCoord
    /\ IdleLimiter
    /\ IdleAutoFix
    /\ IdlePublish
    /\ IdleCache
    /\ IdleStats
    /\ IdleHub
    /\ IdleStatus
    /\ IdleOutputs
    /\ IdlePlan
    /\ IdleTwin
    /\ IdleLoop
    /\ IdleCrowd
    /\ IdleContext

SpecWSLoaded == WSLoadedAlone /\ [][NextWS]_vars

\* handlers and send_progress on one event loop
HubAlone ==
    /\ InitHub
    /\ IdleQueue
    /\ IdleWS
    /\ IdleTask
    /\ IdleStore
    /\ IdleCoord
    /\ IdleLimiter
    /\ IdleAutoFix
    /\ IdlePublish
    /\ IdleCache
    /\ IdleStats
    /\ IdleStatus
    /\ IdleOutputs
    /\ IdlePlan
    /\ IdleTwin
    /\ IdleLoop
    /\ IdleCrowd
    /\ IdleContext

SpecHub == HubAlone /\ [][NextHub]_vars

\* the same, where the awaited sends of leaving handlers end
SpecHubFair == SpecHub /\ HubFairness

\* update_project_status calls alone
StatusAlone ==
    /\ InitStatus
    /\ IdleQueue
    /\ IdleWS
    /\ IdleTask
    /\ IdleStore
    /\ IdleCoord
    /\ IdleLimiter
    /\ IdleAutoFix
    /\ IdlePublish
    /\ IdleCache
    /\ IdleStats
    /\ IdleHub
    /\ IdleOutputs
    /\ IdlePlan
    /\ IdleTwin
    /\ IdleLoop
    /\ IdleCrowd
    /\ IdleContext

SpecStatus == StatusAlone /\ [][NextStatus]_vars

\* the agent_outputs table alone
OutputsAlone ==
    /\ InitOutputs
    /\ IdleQueue
    /\ IdleWS
    /\ IdleTask
    /\ IdleStore
    /\ IdleCoord
    /\ IdleLimiter
    /\ IdleAutoFix
    /\ IdlePublish
    /\ IdleCache
    /\ IdleStats
    /\ IdleHub
    /\ IdleStatus
    /\ IdlePlan
    /\ IdleTwin
    /\ IdleLoop
    /\ IdleCrowd
    /\ IdleContext

SpecOutputs == OutputsAlone /\ [][NextOutputs]_vars


PlanAlone ==
    /\ InitPlan
    /\ IdleQueue
    /\ IdleWS
    /\ IdleTask
    /\ IdleStore
    /\ IdleCoord
    /\ IdleLimiter
    /\ IdleAutoFix
    /\ IdlePublish
    /\ IdleCache
    /\ IdleStats
    /\ IdleHub
    /\ IdleStatus
    /\ IdleOutputs
    /\ IdleTwin
    /\ IdleLoop
    /\ IdleCrowd
    /\ IdleContext

SpecPlan == PlanAlone /\ [][NextPlan]_vars


TwinAlone ==
    /\ InitTwin
    /\ IdleQueue
    /\ IdleWS
    /\ IdleTask
    /\ IdleStore
    /\ IdleCoord
    /\ IdleLimiter
    /\ IdleAutoFix
    /\ IdlePublish
    /\ IdleCache
    /\ IdleStats
    /\ IdleHub
    /\ IdleStatus
    /\ IdleOutputs
    /\ IdlePlan
    /\ IdleLoop
    /\ IdleCrowd
    /\ IdleContext

SpecTwin == TwinAlone /\ [][NextTwin]_vars


LoopAlone ==
    /\ InitLoop
    /\ IdleQueue
    /\ IdleWS
    /\ IdleTask
    /\ IdleStore
    /\ IdleCoord
    /\ IdleLimiter
    /\ IdleAutoFix
    /\ IdlePublish
    /\ IdleCache
    /\ IdleStats
    /\ IdleHub
    /\ IdleStatus
    /\ IdleOutputs
    /\ IdlePlan
    /\ IdleTwin
    /\ IdleCrowd
    /\ IdleContext

SpecLoop == LoopAlone /\ [][NextLoop]_vars


CrowdAlone ==
    /\ InitCrowd
    /\ IdleQueue
    /\ IdleWS
    /\ IdleTask
    /\ IdleStore
    /\ IdleCoord
    /\ IdleLimiter
    /\ IdleAutoFix
    /\ IdlePublish
    /\ IdleCache
    /\ IdleStats
    /\ IdleHub
    /\ IdleStatus
    /\ IdleOutputs
    /\ IdlePlan
    /\ IdleTwin
    /\ IdleLoop
    /\ IdleContext

SpecCrowd == CrowdAlone /\ [][NextCrowd]_vars


ContextAlone ==
    /\ InitContext
    /\ IdleQueue
    /\ IdleWS
    /\ IdleTask
    /\ IdleStore
    /\ IdleCoord
    /\ IdleLimiter
    /\ IdleAutoFix
    /\ IdlePublish
    /\ IdleCache
    /\ IdleStats
    /\ IdleHub
    /\ IdleStatus
    /\ IdleOutputs
    /\ IdlePlan
    /\ IdleTwin
    /\ IdleLoop
    /\ IdleCrowd

SpecContext == ContextAlone /\ [][NextContext]_vars

(***************************************************************************)
(* Claims                                                                  *)
(***************************************************************************)
\* C1: on a queue whose effective max_rate is at least 1, the window of
\* `period` seconds that ends at any instant never holds more recorded
\* admissions than the effective max_rate, whatever the interleaving of the
\* callers (every instant is `now` in some state, and `admitted` keeps every
\* admission of the last `period` ticks).
C1_WindowNeverExceedsMaxRate ==
    max_rate >= 1 => CountIn(admitted, now - period, now) <= max_rate

\* a caller found the window full, slept, and has been admitted into a window
\* that is full again
C1_Witness ==
    /\ max_rate >= 1
    /\ \E t \in RQThreads : rq_pc[t] = "idle" /\ rq_outcome[t] = "blocked"
    /\ CountIn(admitted, now - period, now) = max_rate
    /\ max_rate > 1

\* C2: the manager never holds more than 10 registered sockets for one
\* project id, whatever the interleaving of the /ws/{project_id} handlers.
C2_AtMostTenPerProject ==
    \A pid \in DOMAIN active_connections :
        Cardinality(active_connections[pid]) <= MaxConnections

\* C3: a job that has failed permanently has left a `failed` status row
\* carrying the error message and has sent a `failed` notification, the
\* row being written before the notification.
C3_PermanentFailureIsRecordedAndNotified ==
    task_pc = "FAILURE" =>
        /\ TheProject \in DOMAIN project_status
        /\ project_status[TheProject].status = "failed"
        /\ project_status[TheProject].error = exc
        /\ notifications # <<>>
        /\ notifications[Len(notifications)] = "failed"

\* C4: the job is retried at most max_retries times; the k-th retry
\* (k = 0, 1, 2 earlier retries) is scheduled 60 * 2^k seconds ahead and
\* announced by exactly one `retrying` notification, so the chain of
\* executions of one job is finite.
C4_RetriesBoundedWithBackoff ==
    /\ retries <= max_retries
    /\ Len(countdowns) <= max_retries
    /\ Len(countdowns) = retries + (IF task_pc = "RETRY" THEN 1 ELSE 0)
    /\ \A k \in 1..Len(countdowns) : countdowns[k] = 60 * 2 ^ (k - 1)
    /\ Len(SelectSeq(notifications, LAMBDA n : n = "retrying")) = Len(countdowns)

\* the third retry has run, failed with a retryable error and ended the job
C4_Witness ==
    /\ task_pc = "FAILURE"
    /\ exc \in Retryable
    /\ countdowns = <<60, 120, 240>>

\* C5: a thread that is between the first statement and the commit of a
\* mutating operation holds the store's lock, so two threads are never
\* inside mutating operations at once.
C5_MutatorsHoldTheLock ==
    /\ \A t \in StoreThreads : InOperation(t) => cm_lock = {t}
    /\ \A t1, t2 \in StoreThreads : InOperation(t1) /\ InOperation(t2) => t1 = t2

\* C6 as stated: generate_all_docs never raises, and when any generation
\* step (a document step, the quality review, the Claude CLI documentation)
\* has failed, the returned result carries `error`, no step after the
\* failing one has run, and exactly the documents generated before it are
\* `complete` with a file.
C6_AnyGenerationFailureEndsTheRun ==
    /\ coord_phase # "raised"
    /\ coord_phase = "returned" =>
          \A f \in steps_raised \cap
                   (Documents \cup {"quality_review", "claude_cli_documentation"}) :
              /\ results_error # None
              /\ \A st \in steps_started : IndexOf(st) <= IndexOf(f)
              /\ {d \in Documents : results_status[d] = "complete"}
                     = (steps_started \cap Documents) \ {f}
              /\ results_files \cap Documents = (steps_started \cap Documents) \ {f}

\* C6, amended: generate_all_docs never raises.  The result carries `error`
\* exactly when a step with no try of its own has failed (Step 2, a
\* document step of Steps 1-19, the quality review, the final summary);
\* then no step after the failing one has run and exactly the documents
\* generated before it are `complete` with a file.  A failure of
\* cross-referencing, the index, the auto-fix loop, the Claude CLI
\* documentation or the format conversion leaves no `error`.
C6_UncaughtFailureEndsTheRun ==
    /\ coord_phase # "raised"
    /\ coord_phase = "returned" =>
          LET uncaught == steps_raised \cap
                  (Documents \cup {"get_shared_context", "quality_review", "summary"})
          IN /\ (results_error # None) <=> (uncaught # {})
             /\ \A f \in uncaught :
                    /\ uncaught = {f}
                    /\ \A st \in steps_started : IndexOf(st) <= IndexOf(f)
                    /\ {d \in Documents : results_status[d] = "complete"}
                           = (steps_started \cap Documents) \ {f}
                    /\ results_files \cap Documents = (steps_started \cap Documents) \ {f}

\* the technical documentation step failed and the run has returned
C6_Witness ==
    /\ coord_phase = "returned"
    /\ "technical_documentation" \in steps_raised
    /\ results_error # None
    /\ results_status["user_stories"] = "complete"

C10_TeamOnlyDocuments ==
    coord_phase = "returned" /\ results_error = None =>
        \A d \in Documents :
            IF d \in {"project_charter", "pm_documentation", "stakeholder_documentation",
                      "business_model", "marketing_plan"} /\ profile # "team"
            THEN results_status[d] = "skipped" /\ d \notin results_files
            ELSE results_status[d] = "complete" /\ d \in results_files

\* a run of another profile than "team" has returned without error
C10_Witness ==
    /\ coord_phase = "returned"
    /\ results_error = None
    /\ profile = "individual"
    /\ results_status["marketing_plan"] = "skipped"

\* C7: can_make_request refuses exactly when the number of requests recorded
\* in the current hour, day or month has reached that period's maximum, a
\* recorded request counting once in each of the three periods.
C7_RefusesExactlyAtALimit ==
    \A t \in LimiterThreads :
        rl_result[t] # NoResult =>
            (rl_result[t].allowed <=>
                /\ rl_result[t].hour < max_requests_per_hour
                /\ rl_result[t].day < max_requests_per_day
                /\ rl_result[t].month < max_requests_per_month)

\* C8: once the month has changed, a can_make_request call resets the
\* monthly counter and returns having seen a monthly count of 0 when no
\* request was recorded in the new month: it is not stopped at the reset,
\* waiting for the lock, and it does not count requests of an earlier month.
C8_MonthlyCounterResetOnRollover ==
    \A t \in LimiterThreads :
        /\ rl_op[t] = "can_make_request" /\ rl_pc[t] = "reset_with_lock" => rl_lock # {t}
        /\ rl_result[t] # NoResult /\ rl_result[t].month = 0 => rl_result[t].month_seen = 0

\* the names a priority document is reviewed under
NamesOf(doc) ==
    LET p == priority_docs[CHOOSE i \in 1..Len(priority_docs) : priority_docs[i].doc = doc]
    IN {p.names[i] : i \in 1..Len(p.names)}

\* the scores the review states in the sections of a document; a bare
\* "Score: 100" is not counted, the code does not take it as a score out of 100
OwnScores(doc) ==
    {review.sections[i].line.score : i \in
        {k \in 1..Len(review.sections) :
            /\ review.sections[k].name \in NamesOf(doc)
            /\ \/ review.sections[k].line.fmt = "quality"
               \/ /\ review.sections[k].line.fmt = "short"
                  /\ review.sections[k].line.score < 100}}

\* C11: the improver is invoked only when auto-fix is enabled and the review's
\* overall score is below the threshold, and then only for generated priority
\* documents whose own score is below the threshold or is missing: a document
\* whose own section states a score at or above the threshold is never
\* regenerated.
C11_OnlyLowScoringDocumentsRegenerated ==
    \A i \in 1..Len(improver_calls) :
        LET doc == improver_calls[i]
        IN /\ enable_auto_fix
           /\ ExtractOverallScore(review) < fix_threshold
           /\ doc \in all_documentation
           /\ \/ OwnScores(doc) = {}
              \/ \E sc \in OwnScores(doc) : sc < fix_threshold

\* the status row of the job is `complete` and carries the result
RowComplete ==
    /\ TheProject \in DOMAIN project_status
    /\ project_status[TheProject].status = "complete"
    /\ project_status[TheProject].completed_agents = Results.files
    /\ project_status[TheProject].results = Results

\* the notifications with status `complete` sent so far
CompleteNotifications ==
    Cardinality({i \in 1..Len(notifications) : notifications[i] = "complete"})

NotifyingPosition ==
    IF task_pc \in {"begin", "notify_complete", "notify_failed"} THEN task_pc
    ELSE IF task_pc = "except" /\ exc \in Retryable /\ max_retries - retries > 0
    THEN "retry"
    ELSE None

\* C13: send_websocket_notification never raises: no publish error ever
\* becomes the job's exception, and a step that sends a notification leaves
\* the job in the same position, with the same exception, the same scheduled
\* retries and the same status row, whether the publish succeeds or fails.
C13_OutcomeIndependentOfBroker ==
    /\ [](exc \notin PublishErrors)
    /\ [][NotifyingPosition # None =>
            \A publish_ok \in BOOLEAN :
                /\ [task_pc |-> task_pc', exc |-> exc', countdowns |-> countdowns'] =
                       AfterNotification(NotifyingPosition,
                                         send_websocket_notification(publish_ok))
                /\ UNCHANGED <<project_status, retries, user_idea>>]_vars

\* a job has returned its result although none of its publishes succeeded
C13_Witness ==
    /\ task_pc = "SUCCESS"
    /\ retries > 0
    /\ delivered = <<>>
    /\ Len(notifications) > 2

\* a safe_publish call has ended, by returning or by raising
PublishEnded == sp_pc = "idle" /\ sp_result # "none"

\* C14: safe_publish never raises; it returns True exactly when the broker
\* accepted the message, and otherwise returns False after invoking the
\* fallback once.
C14_SafePublishNeverRaises ==
    PublishEnded =>
        /\ sp_result \in {"True", "False"}
        /\ sp_result = "True" <=> sp_published
        /\ sp_result = "False" /\ sp_fallback # "none" => sp_fallback_calls = 1

\* C15: a refused call has not contacted the broker, has invoked the
\* fallback once, has returned False and has left every counter as it was;
\* a call that returned True has added one to the counter of the current
\* hour, of the current day and of the current month and changed no other
\* counter; a call that returned False has changed no counter.
C15_CountersFollowPublishedMessages ==
    [][sp_pc # "idle" /\ sp_pc' = "idle" =>
        /\ sp_refused' =>
               /\ sp_contacts' = 0
               /\ sp_fallback # "none" => sp_fallback_calls' = 1
               /\ sp_result' = "False"
               /\ request_counts' = sp_counts_before
        /\ sp_result' = "True" =>
               /\ DOMAIN request_counts' =
                      DOMAIN sp_counts_before \cup
                          {HourKey(clock), DayKey(clock), MonthKey(clock)}
               /\ \A k \in DOMAIN request_counts' :
                      request_counts'[k] = CountOf(sp_counts_before, k) +
                          (IF k \in {HourKey(clock), DayKey(clock), MonthKey(clock)}
                           THEN 1 ELSE 0)
        /\ sp_result' = "False" => request_counts' = sp_counts_before]_vars

\* the limiter has refused a call whose fallback raises, after earlier calls
\* were published and recorded
C15_Witness ==
    /\ PublishEnded
    /\ sp_refused
    /\ sp_fallback = "raises"
    /\ sp_counts_before # <<>>

\* an execute call has ended by returning a value
ExecuteReturned == ex_pc = "idle" /\ ex_outcome.kind = "returned"

\* C16: a value execute(f, args) returns was produced by f itself for these
\* arguments: no value passes from one callee to another through the cache.
C16_CachedValueComesFromTheSameCallee ==
    ExecuteReturned =>
        /\ ex_outcome.value.by = ex_callee.id
        /\ ex_outcome.value.args = ex_args

\* C17: a returned value is in the cache under the key of the call, and a
\* call whose key has an entry returns the value of that entry at once: the
\* callee is not invoked, _wait_if_needed is not entered, no timestamp is
\* added, nothing is raised and the cache is left as it is.
C17_CacheHitShortCircuits ==
    /\ [](ExecuteReturned =>
            \E i \in 1..Len(cache) :
                /\ cache[i].key = CacheKey(ex_callee, ex_args)
                /\ cache[i].value = ex_outcome.value)
    /\ [][ex_calls' = ex_calls + 1 =>
            \A i \in 1..Len(cache) :
                cache[i].key = CacheKey(ex_callee', ex_args') =>
                    /\ ex_outcome' = Returned(cache[i].value)
                    /\ ex_pc' = "idle"
                    /\ ex_invoked' = 0
                    /\ ~ex_waited'
                    /\ ex_timestamps' = 0
                    /\ cache' = cache]_vars

\* the same callee has been called a second time with the same arguments
\* and got the value of its first call back from the cache
C17_Witness ==
    /\ ExecuteReturned
    /\ ex_invoked = 0
    /\ ex_previous = [callee |-> ex_callee, args |-> ex_args, kind |-> "returned"]
    /\ ex_outcome.value.by = ex_callee.id

\* C18: the cache never holds more than 100 entries.
C18_CacheHoldsAtMostLimitEntries == Len(cache) <= CacheLimit

\* C19: when the callee raises, execute ends with the error the callee
\* raised, has invoked the callee once and has left the cache as it was when
\* the call began, with no entry under the key of the call; and a call whose
\* key has no entry goes on to the throttle and the callee.
C19_RaisingCallIsNotCached ==
    /\ [][ex_pc = "invoke" /\ ex_outcome'.kind = "raised" =>
            /\ ex_outcome'.error \in CalleeErrors
            /\ ex_invoked' = 1
            /\ cache' = ex_cache_before
            /\ \A i \in 1..Len(cache') : cache'[i].key # CacheKey(ex_callee, ex_args)]_vars
    /\ [][(ex_calls' = ex_calls + 1
            /\ \A i \in 1..Len(cache) : cache[i].key # CacheKey(ex_callee', ex_args'))
          => ex_pc' = "wait_if_needed"]_vars
    /\ [](ex_invoked <= 1)

\* the callee raised, was called again with the same arguments, was invoked
\* again and raised again
C19_Witness ==
    /\ ex_pc = "idle"
    /\ ex_outcome.kind = "raised"
    /\ ex_outcome.error = "429 Resource exhausted"
    /\ ex_invoked = 1
    /\ ex_previous = [callee |-> ex_callee, args |-> ex_args, kind |-> "raised"]

\* C20: on a queue built with max_rate = 2 and period = 1 s, the first two
\* calls are admitted without sleeping, and no call raises.
C20_FirstTwoCallsAdmittedWithoutSleep ==
    max_rate_cfg = 2 =>
        /\ (now = 0 /\ Len(admitted) < 2) =>
               \A t \in RQThreads : rq_pc[t] \notin {"jitter", "blocked"}
        /\ \A t \in RQThreads : rq_outcome[t] # "IndexError"

\* get_stats() has been called after at least one execute call
StatsReported == sq_stats # NoStats /\ sq_executed > 0

C22_DefaultQueueExposesConfiguredRate ==
    sq_margin = NotGiven =>
        /\ sq_max_rate = sq_configured
        /\ StatsReported => sq_stats.max_rate = sq_configured

\* all sockets in the registry
Registered(ac) == UNION {ac[pid] : pid \in DOMAIN ac}

\* C23: a connection attempt with an empty id, an id not starting with
\* `project_`, an id longer than 255 characters, or arriving when the project
\* has 10 registered sockets, is closed with 1008, is not accepted or
\* registered (so no `connected` frame is sent to it, which happens after
\* registration only), and leaves the registry unchanged; sockets enter the
\* registry from accepted attempts only.
C23_RejectedAttemptIsClosedAndLeavesNoTrace ==
    [][ /\ ws_next' = ws_next + 1 =>
            LET pid == ws_last'.project_id
                rejected == \/ pid.text = ""
                            \/ ~pid.starts_with_project
                            \/ pid.length > 255
                            \/ Cardinality(ConnectionsOf(active_connections, pid)) >= 10
            IN  /\ ws_last'.socket = ws_next
                /\ rejected =>
                    /\ ws_last'.close_code = {1008}
                    /\ ws_next \notin DOMAIN ws_accepting'
                    /\ ws_next \notin Registered(active_connections')
                    /\ active_connections' = active_connections
                    /\ ws_accepting' = ws_accepting
        /\ DOMAIN ws_accepting' \ DOMAIN ws_accepting \subseteq
               IF ws_last'.close_code = NotGiven THEN {ws_next} ELSE {}
        /\ Registered(active_connections') \ Registered(active_connections)
               \subseteq DOMAIN ws_accepting
      ]_vars

\* an attempt for a project with 10 registered sockets was closed with 1008,
\* and so was an attempt with an over-long id
C23_Witness ==
    /\ ws_last.close_code = Given(PolicyViolation)
    /\ ws_last.project_id = ProjectA
    /\ Cardinality(ConnectionsOf(active_connections, ProjectA)) >= MaxConnections

\* the sockets whose handler has run its finally block
EndedHandlers == {s \in HubSockets : hub_handler[s].pc = "ended"}

\* the sockets whose handler is leaving through `except Exception`
LeavingHandlers == {s \in HubSockets : hub_handler[s].pc = "error"}

\* C24: a socket whose handler has ended, by whatever exit path, is not in the
\* registry; no send_progress send starts to a socket that is not registered;
\* the registry has no entry with an empty set; and eventually no handler is
\* left between its failure and its finally block.
C24_EndedHandlerIsUnregistered ==
    /\ [](EndedHandlers \cap Registered(hub_connections) = {})
    /\ [](\A pid \in DOMAIN hub_connections : hub_connections[pid] # {})
    /\ [][hub_call'.sent \ hub_call.sent \subseteq
              Registered(hub_connections) \ EndedHandlers]_vars
    /\ <>[](LeavingHandlers = {})

\* a handler left through the error path, and a later send_progress for its
\* project sent to another socket
C24_Witness ==
    /\ \E s \in EndedHandlers :
          /\ hub_handler[s].project_id = hub_call.project_id
          /\ s \notin hub_call.at_call
    /\ hub_call.pc = "returned"
    /\ hub_call.sent # {}

\* the send_progress call has ended
CallEnded == hub_call.pc \in {"returned", "raised"}

\* C25: send_progress(P, message) attempts one send to each socket registered
\* for P and to no other socket; the sockets whose send failed are removed,
\* nothing else changes.
C25_OneSendToEachRegisteredSocket ==
    CallEnded =>
        /\ hub_call.sent = hub_call.at_call
        /\ hub_call.disconnected \cap Registered(hub_connections) = {}

\* C26: send_progress never raises, also when a handler registers or
\* unregisters a socket of the same project while it awaits a send.
C26_SendProgressNeverRaises == hub_call.pc # "raised"

\* the step is the body of an update_project_status call that returns
StatusCallReturns ==
    /\ ps_call # NoStatusCall
    /\ Len(ps_outcomes') = Len(ps_outcomes) + 1
    /\ ps_outcomes'[Len(ps_outcomes')] = "returned"

\* the value of an argument if supplied, else the value stored before
Merged(supplied, stored) == IF supplied # NotGiven THEN supplied ELSE stored

\* C27: update_project_status on a project that has a status row merges field
\* by field: each of status, user_idea, profile, provider_name,
\* completed_agents, results and error is afterwards the supplied value when
\* one was supplied and the stored value otherwise.
C27_UpdateMergesFieldByField ==
    [][ (StatusCallReturns /\ StatusProject \in DOMAIN ps_rows) =>
            LET a == ValueOf(ps_call)
                before == get_project_status(ps_rows, StatusProject)
                after == get_project_status(ps_rows', StatusProject)
            IN  /\ after.status = a.status
                /\ after.user_idea = Merged(a.user_idea, before.user_idea)
                /\ after.profile = Merged(a.profile, before.profile)
                /\ after.provider_name = Merged(a.provider_name, before.provider_name)
                /\ Given(after.completed_agents) =
                       Merged(a.completed_agents, Given(before.completed_agents))
                /\ Given(after.results) = Merged(a.results, Given(before.results))
                /\ after.error = Merged(a.error, before.error)
      ]_vars

\* C28: after a successful update_project_status call with status `complete`
\* the row's completed_at is set, and after a successful call with an error
\* the row's failed_at is set, for a created row as for an updated one.
C28_TimestampsFollowStatusAndError ==
    [][ StatusCallReturns =>
            LET a == ValueOf(ps_call)
                after == get_project_status(ps_rows', StatusProject)
            IN  /\ a.status = "complete" => after.completed_at # NotGiven
                /\ a.error # NotGiven => after.failed_at # NotGiven
      ]_vars

\* C29: update_project_status for a project without a status row and without
\* a user idea ends with ValueError, leaves the table as it was and releases
\* the lock; whenever no call is in progress the lock is free.
C29_CreateWithoutIdeaFailsCleanly ==
    [][ /\ (/\ ps_call # NoStatusCall
            /\ ps_call' = NoStatusCall
            /\ StatusProject \notin DOMAIN ps_rows
            /\ \/ ValueOf(ps_call).user_idea = NotGiven
               \/ ValueOf(ps_call).user_idea = Given(""))
           => /\ ps_outcomes'[Len(ps_outcomes')] \in {"ValueError", "sqlite3.Error"}
              /\ ps_rows' = ps_rows
              /\ ps_lock' = {}
        /\ ps_call' = NoStatusCall => ps_lock' = {}
      ]_vars

\* a call failed with ValueError, and a later call on the same store created
\* the row
C29_Witness ==
    /\ Len(ps_outcomes) >= 2
    /\ ps_outcomes[1] = "ValueError"
    /\ ps_outcomes[Len(ps_outcomes)] = "returned"
    /\ StatusProject \in DOMAIN ps_rows

\* C30: for each (project, agent type) the table holds at most one row, that of
\* the output saved last; get_agent_output returns that output whatever its
\* status, and get_all_agent_outputs(P) has an agent type exactly when the
\* output saved last for it in P has status COMPLETE.
C30_LastSavedOutputPerProjectAndAgent ==
    /\ Cardinality(DOMAIN ao_table) =
           Cardinality({k \in DOMAIN ao_last : ao_last[k] # NotGiven})
    /\ \A project_id \in OutputProjects, agent_type \in AgentTypes :
          LET last == ao_last[<<project_id, agent_type>>]
              all == get_all_agent_outputs(ao_table, project_id)
          IN  /\ get_agent_output(ao_table, project_id, agent_type) = last
              /\ agent_type \in DOMAIN all <=>
                     (last # NotGiven /\ ValueOf(last).status = "complete")
              /\ agent_type \in DOMAIN all => all[agent_type] = ValueOf(last)

\* an output was replaced by a later one that is not COMPLETE, while another
\* agent type of the project has a COMPLETE output
C30_Witness ==
    /\ ao_saves > Cardinality(DOMAIN ao_table)
    /\ \E project_id \in OutputProjects :
          /\ \E agent_type \in AgentTypes :
                /\ ao_last[<<project_id, agent_type>>] # NotGiven
                /\ ValueOf(ao_last[<<project_id, agent_type>>]).status = "failed"
          /\ DOMAIN get_all_agent_outputs(ao_table, project_id) # {}

\* C31 as stated: a team-profile run of generate_all_docs in which no LLM
\* call and no file write failed returns without `error`, with files for
\* requirements and pm_documentation that exist on disk, and
\* get_workflow_status then reports the requirements and the PM agent types
\* as complete.
C31_TeamRunProducesRequirementsAndPlan ==
    plan_profile = "team" /\ plan_pc \in {"returned", "reported"} /\ plan_faults = {} =>
        /\ plan_error = None
        /\ {"requirements", "pm_documentation"} \subseteq plan_files
        /\ {"requirements", "pm_documentation"} \subseteq plan_disk
        /\ plan_pc = "reported" =>
               {"requirements_analyst", "pm_documentation"}
                   \subseteq ValueOf(plan_report).completed_agents

\* C32 as stated: a failed execution is retried only when its failure is a
\* connectivity or timeout failure; any other failure, a missing file or a
\* denied permission included, fails the job permanently the first time,
\* with no retry scheduled.
C32_OnlyConnectivityAndTimeoutRetried ==
    [][task_pc = "except" /\ task_pc' = "RETRY" =>
           exc \in {"ConnectionError", "TimeoutError"}]_vars

\* C35 as stated, its safety part: on a queue built with max_rate >= 1 and
\* the default safety margin, a call that misses the cache never ends with
\* an error of the queue's own (one the callee did not raise), and once a
\* call has ended its caller does not hold the queue's lock.
C35_ExecuteRaisesOnlyCalleeErrors ==
    max_rate_cfg >= 1 =>
        \A t \in RQThreads :
            /\ rq_outcome[t] # "IndexError"
            /\ rq_pc[t] = "idle" => rq_lock # {t}

\* C33: after the same sequence of execute calls with the same clock
\* readings, jitter draws and callee behaviour, the AsyncRequestQueue has
\* made the decision the RequestQueue made (proceed, jitter or block, with
\* the same wait, the same outcome and the same use of the callee), and both
\* hold the same request-timestamp window and the same cache.
C33_AsyncQueueDecidesAsSyncQueue ==
    /\ tw_async_last = tw_sync_last
    /\ tw_async.request_times = tw_sync.request_times
    /\ tw_async.cache = tw_sync.cache

\* both queues have blocked on a full window, with a cached result and a
\* window from which an old timestamp has been dropped
C33_Witness ==
    /\ tw_sync_last.decision = "block"
    /\ tw_async_last.decision = "block"
    /\ tw_sync_last.wait > 0
    /\ tw_sync.cache # <<>>
    /\ tw_calls = MaxTwinCalls
    /\ Len(tw_async.request_times) < tw_calls

\* C34: while the connection is registered, a wait never lasts longer than
\* 30 seconds without a client frame, and each wait that reaches 30 seconds
\* leads to exactly one heartbeat send; when that send succeeds the client
\* has got one more heartbeat frame and the connection stays registered with
\* a new 30-second wait, when it fails the handler ends and the connection is
\* unregistered; a received client frame starts a new 30-second wait and no
\* frame is sent.
C34_OneHeartbeatPerSilentInterval ==
    [][/\ hb_waited' <= HeartbeatTimeout
       /\ hb_attempts' = hb_timeouts'
       /\ hb_registered' =>
              Len(hb_sent') - 1 = hb_timeouts' - (IF hb_pc' = "heartbeat" THEN 1 ELSE 0)
       /\ hb_timeouts' # hb_timeouts =>
              hb_waited = HeartbeatTimeout /\ hb_timeouts' = hb_timeouts + 1
       /\ hb_pc = "heartbeat" /\ Len(hb_sent') > Len(hb_sent) =>
              /\ hb_sent' = Append(hb_sent, "heartbeat")
              /\ hb_registered' /\ hb_pc' = "receiving" /\ hb_waited' = 0
       /\ hb_pc = "heartbeat" /\ hb_sent' = hb_sent =>
              ~hb_registered' /\ hb_pc' = "ended"
       /\ hb_received' # hb_received =>
              /\ hb_waited' = 0 /\ hb_sent' = hb_sent /\ hb_attempts' = hb_attempts
              /\ hb_registered' /\ hb_pc' = "receiving"]_vars

\* after a client frame and two silent intervals the client has got two
\* heartbeats and the connection is registered, in a new wait
C34_Witness ==
    /\ hb_registered
    /\ hb_pc = "receiving"
    /\ hb_received = 1
    /\ hb_sent = <<"connected", "heartbeat", "heartbeat">>
    /\ hb_waited = TickSeconds

\* C36 as stated: no call of can_make_request, record_request or
\* get_usage_stats waits forever for the limiter's lock: whenever a thread
\* waits at a `with self._lock`, the lock is free or its holder is running
\* (not itself waiting for the lock), the first call after a change of the
\* month included.
C36_NoThreadWaitsForeverForTheLock ==
    \A t \in LimiterThreads :
        rl_pc[t] \in {"with_lock", "reset_with_lock"} =>
            \A holder \in rl_lock : rl_pc[holder] \notin {"with_lock", "reset_with_lock"}

\* C37 as stated: with several threads calling safe_publish, the publishes
\* the broker has taken within the hour, and the requests recorded for the
\* hour, the day and the month, never exceed the ceilings the limiter was
\* constructed with.
C37_ConcurrentPublishesWithinCeilings ==
    /\ mp_sent <= max_requests_per_hour
    /\ CountOf(mp_counts, PeriodKeys(clock).hour) <= max_requests_per_hour
    /\ CountOf(mp_counts, PeriodKeys(clock).day) <= max_requests_per_day
    /\ CountOf(mp_counts, PeriodKeys(clock).month) <= max_requests_per_month

\* the status, error and failed_at of the job's project in table `table`
StatusIn(table) ==
    IF TheProject \in DOMAIN table
    THEN [status |-> table[TheProject].status, error |-> table[TheProject].error,
          failed_at |-> table[TheProject].failed_at]
    ELSE [status |-> "no row", error |-> None, failed_at |-> None]

C39_OutputsMatchCompletedAgents ==
    sc_pc = "returned" =>
        /\ sc_view.agent_outputs =
               {a \in DOMAIN sc_view.workflow_status : sc_view.workflow_status[a] = COMPLETE}
        /\ sc_report.total_outputs = Cardinality(sc_report.completed_agents)

\* C40 as stated: every cross-reference that was saved has a row of its
\* own, whatever other cross-references were saved after it, and the
\* SharedContext of a project lists exactly the cross-references saved for
\* that project.
C40_EveryCrossReferenceKeepsItsRow ==
    /\ \A ref \in sc_saved_refs :
           \E id \in DOMAIN sc_refs :
               sc_refs[id] = [project_id |-> ref[1], from_document |-> ref[2],
                              to_document |-> ref[3]]
    /\ Cardinality(DOMAIN sc_refs) = Cardinality(sc_saved_refs)
    /\ sc_pc = "returned" /\ sc_saves = MaxContextSaves =>
           sc_view.cross_references =
               {[from_document |-> ref[2], to_document |-> ref[3]] :
                   ref \in {r \in sc_saved_refs : r[1] = sc_project}}
==============================================================================
